---- MODULE Spec2Model ----
(***************************************************************************)
(* audio.libx.js: the persistent chunk cache (AudioCache) and the          *)
(* streaming orchestrator (AudioStreamer) as state machines.               *)
(*                                                                         *)
(* Asynchronous methods are modelled step by step: an action runs a        *)
(* method from one suspension point (await) to the next.  The requests a   *)
(* method sends to the durable store wait in idbQueue and complete in the  *)
(* order they were issued.                                                 *)
(***************************************************************************)
EXTENDS Integers, Sequences, FiniteSets, TLC

\* ------------------------------------------------------------------ bounds

\* The clock (Date.now()) runs from 0 to MaxTime.
MaxTime == 2
\* At most MaxGets calls of AudioCache.get are issued in one behaviour.
MaxGets == 2
\* One append grows the sink's buffered range by at most MaxChunkSeconds.
MaxChunkSeconds == 2
\* The element loads at most MaxLoaded seconds of a URL or blob source.
MaxLoaded == 2

\* ------------------------------------------------------------------ inputs

\* The keys of the object store in ascending order (getAll returns them so).
IdOrder == <<"a", "b">>
Ids == {IdOrder[i] : i \in 1..Len(IdOrder)}

\* Who calls the cache: a client awaiting each call before the next one.
Clients == {"c1"}

\* The stream requests of one AudioStreamer, in the order they are made; each is
\* a caller of the streamer's cache.
RequestOrder == <<"r1", "r2">>
Requests == {RequestOrder[i] : i \in 1..Len(RequestOrder)}

Callers == Clients \cup Requests

\* Chunk sequences (the bytes of each chunk).
ChunksAB == << <<255, 251>>, <<7>> >>
ChunksC == << <<255, 251, 9>> >>
Payloads == {ChunksAB, ChunksC}
\* "RIFF", four bytes of size, "WAVE".
ChunksWav == << <<82, 73, 70, 70, 0, 0, 0, 0, 87, 65, 86, 69>> >>
\* An MPEG frame sync opens the first chunk.
ChunksMp3 == << <<255, 251, 144>>, <<7>> >>

\* The calls of appendToSourceBuffer on one SourceBuffer, in the order they are made.
AppendOrder == <<"p1", "p2", "p3", "p4">>
AppendCalls == {AppendOrder[i] : i \in 1..Len(AppendOrder)}

\* The event types callbacks are registered for, and the callbacks: one of
\* them throws whenever it is invoked.
EventTypes == {"canPlay", "error"}
Callbacks == {"f", "g"}
ThrowingCallbacks == {"g"}
MaxCallbacks == 3

\* The bytes the arrays handed to detectAudioFormat are made of, and how long
\* the arrays made of them get.
SniffBytes == {255, 251, 73, 68, 51, 7}
MaxPrefix == 3

\* The retryCount arguments createSourceBuffer is called with, besides its
\* default, and what addSourceBuffer throws.
MaxRetries == 4
RetryCounts == 0..MaxRetries
AddErrors == {"NotSupportedError", "QuotaExceededError"}

\* The keys sound effects are registered under, as the characters of
\* String(key): "c" and "c2".
SoundKeys == {<<"c">>, <<"c", "2">>}
\* The calls of playSound, none of them awaited by its caller.
PlayCalls == {"s1", "s2", "s3"}
\* SoundEffectOptions.maxConcurrentSounds
MaxConcurrentSounds == 2

\* navigator, as _detectPlatform classifies it.
Platforms == {"ios", "safari", "android", "desktop"}
\* The calls of ensureUnlocked, none of them awaited by its caller.
UnlockCalls == {"u1", "u2", "u3"}
\* At most MaxContexts AudioContexts are created in one behaviour.
MaxContexts == 2

\* The calls of startRecording, each with its own recordingId (the name of
\* the call); a chunk of recorded data is known by its number.
RecordCalls == {"k1", "k2"}
\* The MediaRecorder delivers at most MaxRecorded chunks to one recording.
MaxRecorded == 2

\* The playlists loadPlaylist is called with (tracks by id), the track
\* addTrack adds, and how long a playlist gets.
Playlists == {<<>>, <<"t1">>, <<"t1", "t2">>, <<"t1", "t2", "t3">>}
AddedTrack == "t4"
MaxTracks == 3
\* The calls of playTrack, next and previous that can be under way at once.
TrackCalls == {"q1", "q2"}
UserCalls == {"q1"}

\* The ids the streamer is asked for.
StreamIds == {"a"}

\* The bodies a fetch can deliver, and its Content-Type header ("" when absent).
Bodies == {ChunksAB, ChunksMp3, ChunksWav}
ContentTypes == {""}

\* AudioStreamerOptions: the defaults, but for a bufferThreshold of 2 seconds.
Options ==
    [bufferThreshold |-> 2, enableCaching |-> TRUE, enableTrimming |-> TRUE,
     mimeType |-> ""]

MimeTypes == {"audio/mpeg"}
TagSets == {{}, {"t"}}

\* Cleanup options: `given` names the numeric options that are present; an
\* absent one reads as 0 here, and the code tests each for truthiness.
NoOptions ==
    [given |-> {}, maxAge |-> 0, minAccessCount |-> 0, maxEntries |-> 0,
     tags |-> {}, excludeTags |-> {}]

MaxAge(t) == [NoOptions EXCEPT !.given = {"maxAge"}, !.maxAge = t]

MinAccessCount(n) == [NoOptions EXCEPT !.given = {"minAccessCount"}, !.minAccessCount = n]

MaxEntries(n) == [NoOptions EXCEPT !.given = {"maxEntries"}, !.maxEntries = n]

\* What SpecCleanup passes to cleanup.
CleanupOptions ==
    {MaxAge(0), MaxAge(1), MinAccessCount(1), MaxEntries(0), MaxEntries(1),
     [MaxAge(1) EXCEPT !.tags = {"t"}],
     [MinAccessCount(1) EXCEPT !.excludeTags = {"t"}],
     [MaxAge(1) EXCEPT !.given = {"maxAge", "maxEntries"}, !.maxEntries = 1]}

\* --------------------------------------------------------------- variables

VARIABLES
    now,            \* Date.now()
    db,             \* AudioCache._db is not null
    initPromise,    \* AudioCache._initPromise: "null", "pending", "resolved", "rejected"
    initStep,       \* where _performInitialization stands: "none", "open", "load", "estimate"
    initWaiters,    \* callers awaiting _initPromise, in the order they began to wait
    memoryCache,    \* AudioCache._memoryCache: id -> entry
    durable,        \* the IndexedDB object store: id -> entry
    accessCounts,   \* AudioCache._accessCounts: id -> count
    totalAccesses,  \* AudioCache._totalAccesses
    cacheHits,      \* AudioCache._cacheHits
    stats,          \* AudioCache._stats: entryCount, totalSize, hitRatio
    calls,          \* per caller: the cache method it is in and where
    idbQueue,       \* callers (or "init") whose durable request is pending, FIFO
    results,        \* per caller: how its last cache call settled
    \* history, read by the properties only
    lastSet,        \* id -> <<chunks>> of the last resolved set(id) nothing has touched since
    hist            \* numbers of get calls and of gets that returned an entry

VARIABLES
    isInitialized,  \* AudioStreamer._isInitialized
    activeStreams,  \* AudioStreamer._activeStreams: id -> the request whose AbortController it holds
    aborted,        \* per request: its AbortController's signal.aborted
    state,          \* AudioStreamer._state: state, currentAudioId ("" when undefined), canPlay, bufferProgress
    audioElement,   \* the HTMLAudioElement: its source, playback, buffered end, listeners added per request
    requests,       \* per request: where streamFromUrl, the playback feed and its promises stand
    emitted         \* the events the last step of the streamer emitted, as <<type, audioId>>

VARIABLES
    sourceBuffer,   \* a SourceBuffer: updating, its listeners, what it was handed
    appends,        \* per call of appendToSourceBuffer: where the call and its promise stand
    eventCallbacks, \* AudioStreamer._eventCallbacks: event type -> the callbacks, in order
    dispatched,     \* the last _emitEvent: its type, the callbacks invoked, how it ended
    \* history, read by the properties only
    dropped         \* event type -> the callbacks dispose() removed and nobody added again

cacheVars ==
    <<db, initPromise, initStep, initWaiters, memoryCache, durable, accessCounts,
      totalAccesses, cacheHits, stats, calls, idbQueue, results, lastSet, hist>>

VARIABLES
    sniffed,        \* the last detectAudioFormat call: its bytes and the AudioFormat returned
    creation        \* the last createSourceBuffer call: where it stands and what it did

helperVars == <<sniffed, creation>>

VARIABLES
    soundsInitialized, \* SoundEffectsManager._isInitialized
    soundEffects,   \* SoundEffectsManager._soundEffects: the keys registered
    activeSounds,   \* SoundEffectsManager._activeSounds: sound key -> the playSound call whose element it holds
    soundState,     \* SoundEffectsManager._state: state, totalSounds, activeSounds, canPlay
    playCalls,      \* per playSound call: where it stands, its key, how it settled
    playing         \* the playSound calls whose audio element is playing

soundVars ==
    <<soundsInitialized, soundEffects, activeSounds, soundState, playCalls, playing>>

VARIABLES
    platform,       \* AudioContextManager._platform
    contexts,       \* the AudioContexts created so far: the state of each, "none" before it exists
    audioContext,   \* AudioContextManager._audioContext: an index of contexts, 0 for null
    unlockFlags,    \* _isLocked, _autoUnlockRegistered, _iosAudioUnlocked, _unlockInProgress, _hasPlayedRealAudio
    silentAudioElement, \* AudioContextManager._silentAudioElement: the call that created it, "" for null
    silentInDocument,   \* the silent audio elements attached to document.body, by creating call
    unlockCalls,    \* per ensureUnlocked call: where it stands, its context, how it settled
    disposeCall,    \* dispose(): "none", "close" (awaiting close()) or "done"
    \* history, read by the properties only
    unlockHist      \* elements created, play() failures, whether an unlock call was made since dispose() resolved

contextVars ==
    <<platform, contexts, audioContext, unlockFlags, silentAudioElement,
      silentInDocument, unlockCalls, disposeCall, unlockHist>>

sinkVars == <<sourceBuffer, appends>>

listenerVars == <<eventCallbacks, dispatched, dropped>>

\* What the classes beside the cache and the streamer keep.
VARIABLES
    recorderInitialized, \* AudioRecorder._isInitialized
    recorderState,  \* AudioRecorder._state: state and recordingId ("" when undefined)
    mediaRecorder,  \* AudioRecorder._mediaRecorder: "null", or its state: "inactive", "recording", "paused"
    recordedChunks, \* AudioRecorder._recordedChunks: how many chunks it holds
    recordings,     \* per startRecording call: where it stands and its onStarted and onCompleted promises
    stopCall        \* the last stopRecording call: where it stands, its recording, how it settled

recorderVars ==
    <<recorderInitialized, recorderState, mediaRecorder, recordedChunks, recordings,
      stopCall>>

VARIABLES
    playlistInitialized, \* PlaylistManager._isInitialized
    playlist,       \* PlaylistManager._playlist: the ids of its tracks
    currentIndex,   \* PlaylistManager._currentIndex
    playMode,       \* PlaylistManager._playMode
    isShuffled,     \* PlaylistManager._isShuffled
    shuffledIndices, \* PlaylistManager._shuffledIndices
    playlistState,  \* PlaylistManager._state, what getState() copies
    trackCalls      \* per playTrack call: where it stands and its index

playlistVars ==
    <<playlistInitialized, playlist, currentIndex, playMode, isShuffled,
      shuffledIndices, playlistState, trackCalls>>

managerVars == <<helperVars, soundVars, contextVars, recorderVars, playlistVars>>

streamerVars ==
    <<isInitialized, activeStreams, aborted, state, audioElement, requests, emitted,
      sinkVars, listenerVars, managerVars>>

vars == <<now, cacheVars, streamerVars>>

\* The variables of the cache and the streamer.
engineVars ==
    <<now, cacheVars, isInitialized, activeStreams, aborted, state, audioElement,
      requests, emitted, sinkVars, listenerVars>>

\* What an action of the sniffer, of the SoundEffectsManager, of the
\* AudioContextManager, of the AudioRecorder and of the PlaylistManager leaves
\* alone.
besideSniffer == <<engineVars, creation, soundVars, contextVars, recorderVars, playlistVars>>
besideSounds == <<engineVars, helperVars, contextVars, recorderVars, playlistVars>>
besideContext == <<engineVars, helperVars, soundVars, recorderVars, playlistVars>>
besideRecorder == <<engineVars, helperVars, soundVars, contextVars, playlistVars>>
besidePlaylist == <<engineVars, helperVars, soundVars, contextVars, recorderVars>>
besideCreation ==
    <<engineVars, sniffed, soundVars, contextVars, recorderVars, playlistVars>>

\* ----------------------------------------------------------------- helpers

EmptyMap == [x \in {} |-> 0]

MapPut(m, k, v) == [x \in DOMAIN m \cup {k} |-> IF x = k THEN v ELSE m[x]]

MapRemove(m, k) == [x \in DOMAIN m \ {k} |-> m[x]]

MapGet(m, k, default) == IF k \in DOMAIN m THEN m[k] ELSE default

RECURSIVE SumLen(_)
SumLen(chunks) ==
    IF chunks = <<>> THEN 0 ELSE Len(Head(chunks)) + SumLen(Tail(chunks))

\* The bytes of a chunk sequence, one after the other.
RECURSIVE Concat(_)
Concat(chunks) ==
    IF chunks = <<>> THEN <<>> ELSE Head(chunks) \o Concat(Tail(chunks))

\* ------------------------------------------------- AudioCache: pure parts

\* set() losing the last chunk of the payload.
MakeEntryTruncated(id, chunks, mimeType, t, tags) ==
    [id |-> id, chunks |-> SubSeq(chunks, 1, Len(chunks) - 1), mimeType |-> mimeType,
     cachedAt |-> t, originalSize |-> SumLen(chunks), tags |-> tags, accessCount |-> 0]

\* The record set() builds: accessCount starts at 0.
MakeEntry(id, chunks, mimeType, t, tags) ==
    [id |-> id, chunks |-> chunks, mimeType |-> mimeType, cachedAt |-> t,
     originalSize |-> SumLen(chunks), tags |-> tags, accessCount |-> 0]

\* _getAllEntries: the store's records in key order.
RECURSIVE EntriesInOrder(_, _)
EntriesInOrder(store, keys) ==
    IF keys = <<>> THEN <<>>
    ELSE (IF Head(keys) \in DOMAIN store THEN <<store[Head(keys)]>> ELSE <<>>)
         \o EntriesInOrder(store, Tail(keys))

GetAllEntries(store) == EntriesInOrder(store, IdOrder)

\* _loadMemoryCache: the memory cache rebuilt from the loaded entries.
RECURSIVE MapOfEntries(_)
MapOfEntries(entries) ==
    IF entries = <<>> THEN EmptyMap
    ELSE MapPut(MapOfEntries(SubSeq(entries, 1, Len(entries) - 1)),
                entries[Len(entries)].id, entries[Len(entries)])

RECURSIVE TotalSize(_)
TotalSize(entries) ==
    IF entries = <<>> THEN 0 ELSE Head(entries).originalSize + TotalSize(Tail(entries))

\* _updateStats: entryCount and totalSize are those of the memory cache.
UpdateStats(st, mem) ==
    [st EXCEPT !.entryCount = Cardinality(DOMAIN mem),
               !.totalSize = TotalSize(GetAllEntries(mem))]

\* _updateHitRatio dividing the hits by the misses.
HitsPerMiss(hits, total) == IF total - hits > 0 THEN <<hits, total - hits>> ELSE <<0, 1>>

\* A ratio is <<numerator, denominator>>; _updateHitRatio computes hits / total.
UpdateHitRatio(hits, total) == IF total > 0 THEN <<hits, total>> ELSE <<0, 1>>

RatioEq(p, q) == p[1] * q[2] = q[1] * p[2]

\* _incrementAccessCount
IncrementAccessCount(counts, id) == MapPut(counts, id, MapGet(counts, id, 0) + 1)

\* What the request of IDBObjectStore.delete() holds in .result when it succeeds:
\* the IndexedDB standard sets it to undefined, whether or not the key existed.
IDBDeleteResult == "undefined"

\* _deleteEntry resolves to request.result !== undefined.
DeleteEntryResult == IDBDeleteResult # "undefined"

\* if (n) of a number or undefined (read as 0): false for both.
Truthy(n) == n # 0

\* cleanup, first pass: whether the loop deletes this entry.
Pass1Deletes(entry, opts, t) ==
    LET byAge == Truthy(opts.maxAge) /\ t - entry.cachedAt > opts.maxAge
        byAccess == Truthy(opts.minAccessCount)
                    /\ entry.accessCount < opts.minAccessCount
        lacksTags == opts.tags # {} /\ entry.tags \cap opts.tags = {}
        excluded == opts.excludeTags # {} /\ entry.tags \cap opts.excludeTags # {}
    IN  ~lacksTags /\ ~excluded /\ (byAge \/ byAccess)

RECURSIVE SelectIds(_, _, _)
SelectIds(entries, opts, t) ==
    IF entries = <<>> THEN <<>>
    ELSE (IF Pass1Deletes(Head(entries), opts, t) THEN <<Head(entries).id>> ELSE <<>>)
         \o SelectIds(Tail(entries), opts, t)

\* cleanup, second pass: the comparator of the sort.
CompareEntries(a, b) ==
    IF a.accessCount - b.accessCount # 0
    THEN a.accessCount - b.accessCount
    ELSE a.cachedAt - b.cachedAt

RECURSIVE InsertSorted(_, _)
InsertSorted(e, sorted) ==
    IF sorted = <<>> THEN <<e>>
    ELSE IF CompareEntries(Head(sorted), e) <= 0
         THEN <<Head(sorted)>> \o InsertSorted(e, Tail(sorted))
         ELSE <<e>> \o sorted

\* Array.prototype.sort is stable.
RECURSIVE SortEntries(_)
SortEntries(entries) ==
    IF entries = <<>> THEN <<>>
    ELSE InsertSorted(entries[Len(entries)],
                      SortEntries(SubSeq(entries, 1, Len(entries) - 1)))

RECURSIVE IdsOf(_)
IdsOf(entries) ==
    IF entries = <<>> THEN <<>> ELSE <<Head(entries).id>> \o IdsOf(Tail(entries))

\* cleanup, second pass: the ids to delete, given the entries that remain.
Pass2Ids(remaining, opts) ==
    IF Len(remaining) > opts.maxEntries
    THEN IdsOf(SubSeq(SortEntries(remaining), 1, Len(remaining) - opts.maxEntries))
    ELSE <<>>

\* ------------------------------------------- AudioCache: calls in progress

\* A caller that is in no cache method.
IdleCall ==
    [kind |-> "none", pc |-> "idle", id |-> "", chunks |-> <<>>, mimeType |-> "",
     tags |-> {}, entry |-> <<>>, opts |-> NoOptions, todo |-> <<>>, pass |-> 0,
     count |-> 0, at |-> 0, before |-> EmptyMap]

\* No call has settled since the caller's last call began.
NoResult ==
    [kind |-> "none", id |-> "", status |-> "none", found |-> FALSE, chunks |-> <<>>,
     flag |-> FALSE, count |-> 0, ratio |-> <<0, 1>>, errorId |-> "",
     opts |-> NoOptions, at |-> 0, before |-> EmptyMap, expect |-> <<>>,
     layer |-> ""]

\* How a call settles; opts, at and before are those of a cleanup call.
ResultOf(call, status) ==
    [NoResult EXCEPT !.kind = call.kind, !.id = call.id, !.status = status,
                     !.opts = call.opts, !.at = call.at, !.before = call.before]

Resolved(call) == ResultOf(call, "resolved")

\* A rejection with a CacheError that carries no audioId.
RejectedWithoutId(call, errorId) == ResultOf(call, "rejected")

\* A rejection with a CacheError whose audioId is errorId ("" when undefined).
Rejected(call, errorId) == [ResultOf(call, "rejected") EXCEPT !.errorId = errorId]

\* What the methods change besides the cache's own fields, as one value.
Flow ==
    [calls |-> calls, idbQueue |-> idbQueue, results |-> results,
     initPromise |-> initPromise, initStep |-> initStep, initWaiters |-> initWaiters]

ApplyFlow(st) ==
    /\ calls' = st.calls
    /\ idbQueue' = st.idbQueue
    /\ results' = st.results
    /\ initPromise' = st.initPromise
    /\ initStep' = st.initStep
    /\ initWaiters' = st.initWaiters

Settle(st, c, res) == [st EXCEPT !.calls[c] = IdleCall, !.results[c] = res]

\* The method sends a request to the object store and awaits it.
Issue(st, c, call, pc) ==
    [st EXCEPT !.calls[c] = [call EXCEPT !.pc = pc],
               !.idbQueue = Append(@, c),
               !.results[c] = NoResult]

\* A method goes on after `await this.initialize()` has resolved.
AfterInit(st, c, dbv, t) ==
    LET call == st.calls[c]
    IN  CASE call.kind = "initialize" -> Settle(st, c, Resolved(call))
          [] call.kind = "set" ->
                IF dbv
                THEN Issue(st, c,
                           [call EXCEPT !.entry =
                               <<MakeEntry(call.id, call.chunks, call.mimeType, t, call.tags)>>],
                           "put")
                ELSE Settle(st, c, Rejected(call, call.id))
          [] call.kind \in {"get", "has"} ->
                IF dbv THEN Issue(st, c, call, "getEntry")
                ELSE Settle(st, c, Rejected(call, call.id))
          [] call.kind = "delete" ->
                IF dbv THEN Issue(st, c, call, "deleteEntry")
                ELSE Settle(st, c, Rejected(call, call.id))
          [] call.kind = "cleanup" ->
                IF dbv THEN Issue(st, c, call, "deleteEntry")
                ELSE Settle(st, c, Rejected(call, Head(call.todo)))
          [] call.kind = "clear" ->
                IF dbv THEN Issue(st, c, call, "clearStore")
                ELSE Settle(st, c, Rejected(call, ""))
          [] OTHER -> st

\* initialize() without the test of _initPromise at its head: a call made
\* while an initialization is under way begins another one.
AwaitInitAfresh(st, c, call, dbv, t) ==
    LET waiting == [st EXCEPT !.calls[c] = [call EXCEPT !.pc = "waitInit"],
                              !.results[c] = NoResult]
    IN  CASE st.initPromise \in {"null", "pending"} ->
                [waiting EXCEPT !.initPromise = "pending", !.initStep = "open",
                                !.initWaiters = Append(@, c)]
          [] st.initPromise = "resolved" -> AfterInit(waiting, c, dbv, t)
          [] OTHER -> Settle(waiting, c, Rejected(call, ""))

\* initialize(), awaited by caller c in the method `call`.
AwaitInit(st, c, call, dbv, t) ==
    LET waiting == [st EXCEPT !.calls[c] = [call EXCEPT !.pc = "waitInit"],
                              !.results[c] = NoResult]
    IN  CASE st.initPromise = "null" ->
                [waiting EXCEPT !.initPromise = "pending", !.initStep = "open",
                                !.initWaiters = Append(@, c)]
          [] st.initPromise = "pending" ->
                [waiting EXCEPT !.initWaiters = Append(@, c)]
          [] st.initPromise = "resolved" -> AfterInit(waiting, c, dbv, t)
          [] OTHER -> Settle(waiting, c, Rejected(call, ""))

\* The promise of initialize() resolves: the methods awaiting it go on.
RECURSIVE ResumeAll(_, _, _, _)
ResumeAll(st, waiters, dbv, t) ==
    IF waiters = <<>> THEN st
    ELSE ResumeAll(AfterInit(st, Head(waiters), dbv, t), Tail(waiters), dbv, t)

RECURSIVE RejectAll(_, _)
RejectAll(st, waiters) ==
    IF waiters = <<>> THEN st
    ELSE RejectAll(Settle(st, Head(waiters), Rejected(st.calls[Head(waiters)], "")),
                   Tail(waiters))

\* cleanup goes on: the next delete of the pass, then the second pass, then the end.
CleanupNext(st, c, call, dbv, t) ==
    IF call.todo # <<>>
    THEN IF dbv THEN Issue(st, c, call, "deleteEntry") ELSE AwaitInit(st, c, call, dbv, t)
    ELSE IF call.pass = 1 /\ Truthy(call.opts.maxEntries)
         THEN IF dbv THEN Issue(st, c, [call EXCEPT !.pass = 2], "getAll2")
              ELSE Settle(st, c, Rejected(call, ""))
         ELSE Settle(st, c, [Resolved(call) EXCEPT !.count = call.count])

\* The history the properties read.
\*   gets, hits        get calls, and those that returned an entry, since the last clear()
\*   allGets, allHits  the same since the cache was constructed
\*   fresh             no get is under way or was rejected, and no clear() made, since a get returned
\*   reads[id]         gets that returned the entry of id since it was last set
NoteGet(h) == [h EXCEPT !.gets = @ + 1, !.allGets = @ + 1, !.fresh = FALSE]

NoteReturn(h, id, found) ==
    [h EXCEPT !.hits = IF found THEN @ + 1 ELSE @,
              !.allHits = IF found THEN @ + 1 ELSE @,
              !.reads[id] = IF found THEN @ + 1 ELSE @,
              !.fresh = TRUE]

RECURSIVE Forget(_, _)
Forget(ls, ids) ==
    IF ids = <<>> THEN ls ELSE Forget([ls EXCEPT ![Head(ids)] = <<>>], Tail(ids))

\* --------------------------------------------------- AudioCache: actions

Tick ==
    /\ now < MaxTime
    /\ now' = now + 1
    /\ UNCHANGED <<cacheVars, streamerVars>>

\* initialize()
Initialize(c) ==
    /\ calls[c].pc = "idle"
    /\ ApplyFlow(AwaitInit(Flow, c, [IdleCall EXCEPT !.kind = "initialize"], db, now))
    /\ UNCHANGED <<now, db, memoryCache, durable, accessCounts, totalAccesses,
                   cacheHits, stats, lastSet, hist>>

\* _openDatabase: the open request succeeds or fails.
InitOpenDone(ok) ==
    /\ initStep = "open"
    /\ IF ok
       THEN /\ db' = TRUE
            /\ initStep' = "load"
            /\ idbQueue' = Append(idbQueue, "init")
            /\ UNCHANGED <<initPromise, initWaiters, calls, results, hist>>
       ELSE /\ ApplyFlow(RejectAll([Flow EXCEPT !.initPromise = "rejected",
                                                !.initStep = "none",
                                                !.initWaiters = <<>>],
                                   initWaiters))
            /\ hist' = [hist EXCEPT !.fresh =
                           @ /\ \A i \in 1..Len(initWaiters) :
                                   calls[initWaiters[i]].kind \notin {"get", "has"}]
            /\ UNCHANGED db
    /\ UNCHANGED <<now, memoryCache, durable, accessCounts, totalAccesses, cacheHits,
                   stats, lastSet>>
    /\ UNCHANGED streamerVars

\* _loadMemoryCache: getAll completes; the memory cache is rebuilt from the store.
InitLoadDone(ok) ==
    /\ idbQueue # <<>> /\ Head(idbQueue) = "init"
    /\ IF ok
       THEN /\ memoryCache' = MapOfEntries(GetAllEntries(durable))
            /\ stats' = UpdateStats(stats, MapOfEntries(GetAllEntries(durable)))
            /\ initStep' = "estimate"
            /\ idbQueue' = Tail(idbQueue)
            /\ UNCHANGED <<initPromise, initWaiters, calls, results, hist>>
       ELSE /\ ApplyFlow(RejectAll([Flow EXCEPT !.initPromise = "rejected",
                                                !.initStep = "none",
                                                !.initWaiters = <<>>,
                                                !.idbQueue = Tail(@)],
                                   initWaiters))
            /\ hist' = [hist EXCEPT !.fresh =
                           @ /\ \A i \in 1..Len(initWaiters) :
                                   calls[initWaiters[i]].kind \notin {"get", "has"}]
            /\ UNCHANGED <<memoryCache, stats>>
    /\ UNCHANGED <<now, db, durable, accessCounts, totalAccesses, cacheHits, lastSet>>
    /\ UNCHANGED streamerVars

\* _updateStorageStats settles (the quota figures are not modelled); the promise of
\* initialize() resolves and the methods awaiting it go on, in the order they waited.
InitEstimateDone ==
    /\ initStep = "estimate"
    /\ ApplyFlow(ResumeAll([Flow EXCEPT !.initPromise = "resolved",
                                        !.initStep = "none",
                                        !.initWaiters = <<>>],
                           initWaiters, db, now))
    /\ UNCHANGED <<now, db, memoryCache, durable, accessCounts, totalAccesses,
                   cacheHits, stats, lastSet, hist>>
    /\ UNCHANGED streamerVars

\* set(id, chunks, mimeType, {tags})
Set(c, id, chunks, mimeType, tags) ==
    /\ calls[c].pc = "idle"
    /\ LET call == [IdleCall EXCEPT !.kind = "set", !.id = id, !.chunks = chunks,
                                    !.mimeType = mimeType, !.tags = tags]
       IN  ApplyFlow(IF db
                     THEN Issue(Flow, c,
                                [call EXCEPT !.entry =
                                    <<MakeEntry(id, chunks, mimeType, now, tags)>>],
                                "put")
                     ELSE AwaitInit(Flow, c, call, db, now))
    /\ lastSet' = [lastSet EXCEPT ![id] = <<>>]
    /\ UNCHANGED <<now, db, memoryCache, durable, accessCounts, totalAccesses,
                   cacheHits, stats, hist>>

\* set() mirroring the entry into the memory cache whether or not _storeEntry
\* stored it.
PutDoneMirrored(c, ok) ==
    /\ idbQueue # <<>> /\ Head(idbQueue) = c /\ calls[c].pc = "put"
    /\ LET call == calls[c]
           entry == call.entry[1]
           st == [Flow EXCEPT !.idbQueue = Tail(@)]
       IN  /\ memoryCache' = MapPut(memoryCache, call.id, entry)
           /\ stats' = UpdateStats(stats, MapPut(memoryCache, call.id, entry))
           /\ IF ok
              THEN /\ durable' = MapPut(durable, call.id, entry)
                   /\ lastSet' = [lastSet EXCEPT ![call.id] = <<call.chunks>>]
                   /\ hist' = [hist EXCEPT !.reads[call.id] = 0]
                   /\ ApplyFlow(Settle(st, c, Resolved(call)))
              ELSE /\ ApplyFlow(Settle(st, c, Rejected(call, call.id)))
                   /\ UNCHANGED <<durable, lastSet, hist>>
    /\ UNCHANGED <<now, db, accessCounts, totalAccesses, cacheHits>>
    /\ UNCHANGED streamerVars

\* _storeEntry settles; on success the entry is mirrored into the memory cache.
PutDone(c, ok) ==
    /\ idbQueue # <<>> /\ Head(idbQueue) = c /\ calls[c].pc = "put"
    /\ LET call == calls[c]
           entry == call.entry[1]
           st == [Flow EXCEPT !.idbQueue = Tail(@)]
       IN  IF ok
           THEN /\ durable' = MapPut(durable, call.id, entry)
                /\ memoryCache' = MapPut(memoryCache, call.id, entry)
                /\ stats' = UpdateStats(stats, MapPut(memoryCache, call.id, entry))
                /\ lastSet' = [lastSet EXCEPT ![call.id] = <<call.chunks>>]
                /\ hist' = [hist EXCEPT !.reads[call.id] = 0]
                /\ ApplyFlow(Settle(st, c, Resolved(call)))
           ELSE /\ ApplyFlow(Settle(st, c, Rejected(call, call.id)))
                /\ UNCHANGED <<durable, memoryCache, stats, lastSet, hist>>
    /\ UNCHANGED <<now, db, accessCounts, totalAccesses, cacheHits>>
    /\ UNCHANGED streamerVars

\* get(id), and has(id) after its memory fast path: the access is counted, then
\* the memory cache is looked up, then the store.
GetPath(c, id, kind) ==
    LET call == [IdleCall EXCEPT !.kind = kind, !.id = id]
    IN  /\ totalAccesses' = totalAccesses + 1
        /\ IF id \in DOMAIN memoryCache
           THEN /\ cacheHits' = cacheHits + 1
                /\ accessCounts' = IncrementAccessCount(accessCounts, id)
                /\ stats' = [stats EXCEPT !.hitRatio =
                                UpdateHitRatio(cacheHits + 1, totalAccesses + 1)]
                /\ hist' = NoteReturn(NoteGet(hist), id, TRUE)
                /\ ApplyFlow(Settle(Flow, c,
                        [Resolved(call) EXCEPT !.found = TRUE, !.flag = TRUE,
                                               !.chunks = memoryCache[id].chunks,
                                               !.expect = lastSet[id],
                                               !.layer = "memory"]))
           ELSE /\ hist' = NoteGet(hist)
                /\ ApplyFlow(IF db THEN Issue(Flow, c, call, "getEntry")
                             ELSE AwaitInit(Flow, c, call, db, now))
                /\ UNCHANGED <<cacheHits, accessCounts, stats>>
        /\ UNCHANGED <<now, db, memoryCache, durable, lastSet>>

Get(c, id) ==
    /\ calls[c].pc = "idle"
    /\ hist.allGets < MaxGets
    /\ GetPath(c, id, "get")

\* has(id)
Has(c, id) ==
    /\ calls[c].pc = "idle"
    /\ id \in DOMAIN memoryCache \/ hist.allGets < MaxGets
    /\ IF id \in DOMAIN memoryCache
       THEN /\ ApplyFlow(Settle(Flow, c,
                    [Resolved([IdleCall EXCEPT !.kind = "has", !.id = id])
                        EXCEPT !.flag = TRUE]))
            /\ UNCHANGED <<now, db, memoryCache, durable, accessCounts, totalAccesses,
                           cacheHits, stats, lastSet, hist>>
       ELSE GetPath(c, id, "has")
    /\ UNCHANGED streamerVars

\* _getEntry settles; a hit is promoted to the memory cache.
GetEntryDone(c, ok) ==
    /\ idbQueue # <<>> /\ Head(idbQueue) = c /\ calls[c].pc = "getEntry"
    /\ LET call == calls[c]
           st == [Flow EXCEPT !.idbQueue = Tail(@)]
       IN  IF ok
           THEN IF call.id \in DOMAIN durable
                THEN /\ cacheHits' = cacheHits + 1
                     /\ memoryCache' = MapPut(memoryCache, call.id, durable[call.id])
                     /\ accessCounts' = IncrementAccessCount(accessCounts, call.id)
                     /\ stats' = [stats EXCEPT !.hitRatio =
                                     UpdateHitRatio(cacheHits + 1, totalAccesses)]
                     /\ hist' = NoteReturn(hist, call.id, TRUE)
                     /\ ApplyFlow(Settle(st, c,
                            [Resolved(call) EXCEPT !.found = TRUE, !.flag = TRUE,
                                                   !.chunks = durable[call.id].chunks,
                                                   !.expect = lastSet[call.id],
                                                   !.layer = "durable"]))
                ELSE /\ stats' = [stats EXCEPT !.hitRatio =
                                     UpdateHitRatio(cacheHits, totalAccesses)]
                     /\ hist' = NoteReturn(hist, call.id, FALSE)
                     /\ ApplyFlow(Settle(st, c,
                            [Resolved(call) EXCEPT !.expect = lastSet[call.id]]))
                     /\ UNCHANGED <<cacheHits, memoryCache, accessCounts>>
           ELSE /\ ApplyFlow(Settle(st, c, Rejected(call, call.id)))
                /\ hist' = [hist EXCEPT !.fresh = FALSE]
                /\ UNCHANGED <<cacheHits, memoryCache, accessCounts, stats>>
    /\ UNCHANGED <<now, db, durable, totalAccesses, lastSet>>
    /\ UNCHANGED streamerVars

\* delete(id)
Delete(c, id) ==
    /\ calls[c].pc = "idle"
    /\ LET call == [IdleCall EXCEPT !.kind = "delete", !.id = id]
       IN  ApplyFlow(IF db THEN Issue(Flow, c, call, "deleteEntry")
                     ELSE AwaitInit(Flow, c, call, db, now))
    /\ lastSet' = [lastSet EXCEPT ![id] = <<>>]
    /\ UNCHANGED <<now, db, memoryCache, durable, accessCounts, totalAccesses,
                   cacheHits, stats, hist>>
    /\ UNCHANGED streamerVars

\* _deleteEntry settles, for delete(id) and for the delete(entry.id) of cleanup.
\* The memory cache and the access counter are dropped only if it reports true.
DeleteEntryDone(c, ok) ==
    /\ idbQueue # <<>> /\ Head(idbQueue) = c /\ calls[c].pc = "deleteEntry"
    /\ LET call == calls[c]
           id == IF call.kind = "cleanup" THEN Head(call.todo) ELSE call.id
           deleted == DeleteEntryResult
           st == [Flow EXCEPT !.idbQueue = Tail(@)]
           next == [call EXCEPT !.todo = Tail(@), !.count = @ + 1]
       IN  IF ok
           THEN /\ durable' = MapRemove(durable, id)
                /\ IF deleted
                   THEN /\ memoryCache' = MapRemove(memoryCache, id)
                        /\ accessCounts' = MapRemove(accessCounts, id)
                        /\ stats' = UpdateStats(stats, MapRemove(memoryCache, id))
                   ELSE UNCHANGED <<memoryCache, accessCounts, stats>>
                /\ ApplyFlow(IF call.kind = "cleanup"
                             THEN CleanupNext(st, c, next, db, now)
                             ELSE Settle(st, c, [Resolved(call) EXCEPT !.flag = deleted]))
           ELSE /\ ApplyFlow(Settle(st, c, Rejected(call, id)))
                /\ UNCHANGED <<durable, memoryCache, accessCounts, stats>>
    /\ UNCHANGED <<now, db, totalAccesses, cacheHits, lastSet, hist>>
    /\ UNCHANGED streamerVars

\* clear()
Clear(c) ==
    /\ calls[c].pc = "idle"
    /\ LET call == [IdleCall EXCEPT !.kind = "clear"]
       IN  ApplyFlow(IF db THEN Issue(Flow, c, call, "clearStore")
                     ELSE AwaitInit(Flow, c, call, db, now))
    /\ lastSet' = [id \in Ids |-> <<>>]
    /\ UNCHANGED <<now, db, memoryCache, durable, accessCounts, totalAccesses,
                   cacheHits, stats, hist>>
    /\ UNCHANGED streamerVars

\* _clearStore settles; on success everything is wiped and the accumulators reset.
ClearStoreDone(c, ok) ==
    /\ idbQueue # <<>> /\ Head(idbQueue) = c /\ calls[c].pc = "clearStore"
    /\ LET call == calls[c]
           st == [Flow EXCEPT !.idbQueue = Tail(@)]
       IN  IF ok
           THEN /\ durable' = EmptyMap
                /\ memoryCache' = EmptyMap
                /\ accessCounts' = EmptyMap
                /\ totalAccesses' = 0
                /\ cacheHits' = 0
                /\ stats' = UpdateStats(stats, EmptyMap)
                /\ hist' = [hist EXCEPT !.gets = 0, !.hits = 0, !.fresh = FALSE]
                /\ ApplyFlow(Settle(st, c, Resolved(call)))
           ELSE /\ ApplyFlow(Settle(st, c, Rejected(call, "")))
                /\ UNCHANGED <<durable, memoryCache, accessCounts, totalAccesses,
                               cacheHits, stats, hist>>
    /\ UNCHANGED <<now, db, lastSet>>
    /\ UNCHANGED streamerVars

\* cleanup(options): _getAllEntries throws at once without a database.
Cleanup(c, opts) ==
    /\ calls[c].pc = "idle"
    /\ LET call == [IdleCall EXCEPT !.kind = "cleanup", !.opts = opts, !.pass = 1]
       IN  ApplyFlow(IF db THEN Issue(Flow, c, call, "getAll1")
                     ELSE Settle(Flow, c, Rejected(call, "")))
    /\ UNCHANGED <<now, db, memoryCache, durable, accessCounts, totalAccesses,
                   cacheHits, stats, lastSet, hist>>
    /\ UNCHANGED streamerVars

\* cleanup: the first getAll settles; now is read and the first pass chooses.
CleanupLoaded(c, ok) ==
    /\ idbQueue # <<>> /\ Head(idbQueue) = c /\ calls[c].pc = "getAll1"
    /\ LET call == calls[c]
           st == [Flow EXCEPT !.idbQueue = Tail(@)]
           todo == SelectIds(GetAllEntries(durable), call.opts, now)
           next == [call EXCEPT !.todo = todo, !.at = now, !.before = durable]
       IN  IF ok
           THEN /\ ApplyFlow(CleanupNext(st, c, next, db, now))
                /\ lastSet' = Forget(lastSet, todo)
           ELSE /\ ApplyFlow(Settle(st, c, Rejected(call, "")))
                /\ UNCHANGED lastSet
    /\ UNCHANGED <<now, db, memoryCache, durable, accessCounts, totalAccesses,
                   cacheHits, stats, hist>>
    /\ UNCHANGED streamerVars

\* cleanup: the second getAll settles; the entries over maxEntries are chosen.
CleanupReloaded(c, ok) ==
    /\ idbQueue # <<>> /\ Head(idbQueue) = c /\ calls[c].pc = "getAll2"
    /\ LET call == calls[c]
           st == [Flow EXCEPT !.idbQueue = Tail(@)]
           todo == Pass2Ids(GetAllEntries(durable), call.opts)
           next == [call EXCEPT !.todo = todo]
       IN  IF ok
           THEN /\ ApplyFlow(CleanupNext(st, c, next, db, now))
                /\ lastSet' = Forget(lastSet, todo)
           ELSE /\ ApplyFlow(Settle(st, c, Rejected(call, "")))
                /\ UNCHANGED lastSet
    /\ UNCHANGED <<now, db, memoryCache, durable, accessCounts, totalAccesses,
                   cacheHits, stats, hist>>
    /\ UNCHANGED streamerVars

\* getStats(): _updateTagStats reads all entries, then a copy of _stats is returned.
GetStats(c) ==
    /\ calls[c].pc = "idle"
    /\ LET call == [IdleCall EXCEPT !.kind = "getStats"]
       IN  ApplyFlow(IF db THEN Issue(Flow, c, call, "getAllTags")
                     ELSE Settle(Flow, c, Rejected(call, "")))
    /\ UNCHANGED <<now, db, memoryCache, durable, accessCounts, totalAccesses,
                   cacheHits, stats, lastSet, hist>>
    /\ UNCHANGED streamerVars

GetStatsDone(c, ok) ==
    /\ idbQueue # <<>> /\ Head(idbQueue) = c /\ calls[c].pc = "getAllTags"
    /\ LET call == calls[c]
           st == [Flow EXCEPT !.idbQueue = Tail(@)]
       IN  ApplyFlow(IF ok
                     THEN Settle(st, c, [Resolved(call) EXCEPT
                                            !.ratio = stats.hitRatio,
                                            !.count = stats.entryCount])
                     ELSE Settle(st, c, Rejected(call, "")))
    /\ UNCHANGED <<now, db, memoryCache, durable, accessCounts, totalAccesses,
                   cacheHits, stats, lastSet, hist>>
    /\ UNCHANGED streamerVars

\* close(), called while no initialization is under way.
Close(c) ==
    /\ calls[c].pc = "idle"
    /\ initStep = "none"
    /\ db' = FALSE
    /\ memoryCache' = EmptyMap
    /\ accessCounts' = EmptyMap
    /\ initPromise' = "null"
    /\ UNCHANGED <<now, initStep, initWaiters, durable, totalAccesses, cacheHits,
                   stats, calls, idbQueue, results, lastSet, hist>>
    /\ UNCHANGED streamerVars

\* ------------------------------------------- MediaSourceHelper: pure parts

\* bytes[i] of a Uint8Array (zero-based); -1 stands for undefined.
ByteAt(bytes, i) == IF i >= 0 /\ i < Len(bytes) THEN bytes[i + 1] ELSE -1

IsWavFormat(bytes) ==
    /\ Len(bytes) >= 12
    /\ SubSeq(bytes, 1, 4) = <<82, 73, 70, 70>>
    /\ SubSeq(bytes, 9, 12) = <<87, 65, 86, 69>>

\* An ID3v2 tag, a frame sync (0xFF, then the top three bits set), or an ID3v1
\* tag 128 bytes before the end.
IsMp3Format(bytes) ==
    /\ Len(bytes) >= 3
    /\ \/ ByteAt(bytes, 0) = 73 /\ ByteAt(bytes, 1) = 68 /\ ByteAt(bytes, 2) = 51
       \/ ByteAt(bytes, 0) = 255 /\ ByteAt(bytes, 1) \div 32 = 7
       \/ /\ Len(bytes) >= 128
          /\ ByteAt(bytes, Len(bytes) - 128) = 84
          /\ ByteAt(bytes, Len(bytes) - 127) = 65
          /\ ByteAt(bytes, Len(bytes) - 126) = 71

IsWebMFormat(bytes) ==
    Len(bytes) >= 4 /\ SubSeq(bytes, 1, 4) = <<26, 69, 223, 163>>

IsOggFormat(bytes) ==
    Len(bytes) >= 4 /\ SubSeq(bytes, 1, 4) = <<79, 103, 103, 83>>

DetectAudioFormat(bytes) ==
    CASE IsWavFormat(bytes) ->
            [type |-> "wav", mimeType |-> "audio/wav", streamable |-> FALSE,
             requiresConversion |-> TRUE]
      [] ~IsWavFormat(bytes) /\ IsMp3Format(bytes) ->
            [type |-> "mp3", mimeType |-> "audio/mpeg", streamable |-> TRUE,
             requiresConversion |-> FALSE]
      [] ~IsWavFormat(bytes) /\ ~IsMp3Format(bytes) /\ IsWebMFormat(bytes) ->
            [type |-> "webm", mimeType |-> "audio/webm", streamable |-> TRUE,
             requiresConversion |-> FALSE]
      [] ~IsWavFormat(bytes) /\ ~IsMp3Format(bytes) /\ ~IsWebMFormat(bytes)
            /\ IsOggFormat(bytes) ->
            [type |-> "ogg", mimeType |-> "audio/ogg", streamable |-> TRUE,
             requiresConversion |-> FALSE]
      [] OTHER ->
            [type |-> "unknown", mimeType |-> "audio/mpeg", streamable |-> FALSE,
             requiresConversion |-> FALSE]

\* No detectAudioFormat call yet.
NoSniff == [bytes |-> <<>>, format |-> <<>>]

\* A byte array of 128 bytes that begins with "TAG".
Id3v1Tag ==
    [i \in 1..128 |-> CASE i = 1 -> 84 [] i = 2 -> 65 [] i = 3 -> 71 [] OTHER -> 0]

RECURSIVE SeqsUpTo(_, _)
SeqsUpTo(S, n) ==
    IF n = 0 THEN {<<>>}
    ELSE LET shorter == SeqsUpTo(S, n - 1)
         IN  shorter \cup {Append(q, x) : q \in shorter, x \in S}

\* The byte arrays detectAudioFormat is called with: every array of up to
\* MaxPrefix bytes from SniffBytes, the signatures of WAV, WebM and Ogg, alone
\* and followed by a byte, and arrays that end in an ID3v1 tag.
SniffInputs ==
    SeqsUpTo(SniffBytes, MaxPrefix)
        \cup {sig \o tail :
                sig \in {ChunksWav[1], <<26, 69, 223, 163>>, <<79, 103, 103, 83>>,
                         <<82, 73, 70, 70>>, Id3v1Tag, <<7>> \o Id3v1Tag},
                tail \in {<<>>, <<7>>}}

\* detectAudioFormat(data)
DetectFormat ==
    /\ sniffed.format = <<>>
    /\ sniffed' = [sniffed EXCEPT !.format = <<DetectAudioFormat(sniffed.bytes)>>]
    /\ UNCHANGED besideSniffer

\* The next call, with other bytes.
SniffAgain(bytes) ==
    /\ sniffed.format # <<>>
    /\ sniffed' = [bytes |-> bytes, format |-> <<>>]
    /\ UNCHANGED besideSniffer

\* ------------------------------------- MediaSourceHelper: the SourceBuffer

\* resolve / reject of a promise: a settled promise stays as it is.
SettleOnce(p, outcome) == IF p = "pending" THEN outcome ELSE p

\* A SourceBuffer nothing was appended to.
\*   updating   SourceBuffer.updating
\*   taking     the data of the append under way
\*   buffered   the data of the appends that completed, in order
\*   listeners  its event listeners in the order they were added, each for
\*              "updateend" or "error" and once only: "onUpdateEnd" and
\*              "onError" of a call, or "deferred", the listener that performs
\*              the append of a call made while the buffer was updating
\*   refused    the data of the appendBuffer calls made while it was updating
\*              (each throws InvalidStateError)
NewSourceBuffer ==
    [updating |-> FALSE, taking |-> <<>>, buffered |-> <<>>, listeners |-> <<>>,
     refused |-> <<>>]

Listener(event, kind, p) == [event |-> event, kind |-> kind, call |-> p]

\* The data of a call: one chunk holding the call's number.
DataOf(p) == << CHOOSE i \in 1..Len(AppendOrder) : AppendOrder[i] = p >>

\* removeEventListener
RemoveListener(sb, l) ==
    [sb EXCEPT !.listeners = SelectSeq(@, LAMBDA x : x # l)]

\* SourceBuffer.appendBuffer: refused while updating, else the update begins.
AppendBuffer(sb, data) ==
    IF sb.updating
    THEN [sb EXCEPT !.refused = Append(@, data)]
    ELSE [sb EXCEPT !.updating = TRUE, !.taking = data]

\* _performAppend: the call's two listeners are added, then appendBuffer; when
\* it throws the listeners are removed again and the error is thrown on.
PerformAppend(sb, p) ==
    LET onUpdateEnd == Listener("updateend", "onUpdateEnd", p)
        onError == Listener("error", "onError", p)
        added == [sb EXCEPT !.listeners = @ \o <<onUpdateEnd, onError>>]
        after == AppendBuffer(added, DataOf(p))
    IN  IF added.updating
        THEN RemoveListener(RemoveListener(after, onUpdateEnd), onError)
        ELSE after

\* A listener runs, on st = [sb, appends].  onUpdateEnd and onError remove the
\* call's listeners and settle its promise; the deferred listener performs the
\* append, and what _performAppend throws there reaches no promise.
InvokeListener(st, l) ==
    LET cleared == RemoveListener(
                       RemoveListener(st.sb, Listener("updateend", "onUpdateEnd", l.call)),
                       Listener("error", "onError", l.call))
    IN  CASE l.kind = "onUpdateEnd" ->
                [sb |-> cleared,
                 appends |-> [st.appends EXCEPT ![l.call] = SettleOnce(@, "resolved")]]
          [] l.kind = "onError" ->
                [sb |-> cleared,
                 appends |-> [st.appends EXCEPT ![l.call] = SettleOnce(@, "rejected")]]
          [] l.kind = "deferred" ->
                [sb |-> PerformAppend(st.sb, l.call), appends |-> st.appends]

\* An event is dispatched to the listeners it found when it fired, in order; a
\* listener removed in the meantime is passed over, and each is removed before
\* it runs.
RECURSIVE DispatchEvent(_, _)
DispatchEvent(st, found) ==
    IF found = <<>> THEN st
    ELSE LET l == Head(found)
         IN  IF \E i \in 1..Len(st.sb.listeners) : st.sb.listeners[i] = l
             THEN DispatchEvent(
                      InvokeListener([st EXCEPT !.sb = RemoveListener(@, l)], l),
                      Tail(found))
             ELSE DispatchEvent(st, Tail(found))

ListenersFor(sb, event) == SelectSeq(sb.listeners, LAMBDA l : l.event = event)

\* appendToSourceBuffer(sourceBuffer, data), the calls being made in
\* AppendOrder: the append is performed at once, or on the next updateend
\* when the buffer is updating.
AppendToSourceBuffer(p) ==
    /\ appends[p] = "none"
    /\ \A i \in 1..Len(AppendOrder) :
          AppendOrder[i] = p => \A j \in 1..(i - 1) : appends[AppendOrder[j]] # "none"
    /\ appends' = [appends EXCEPT ![p] = "pending"]
    /\ sourceBuffer' =
          IF sourceBuffer.updating
          THEN [sourceBuffer EXCEPT
                   !.listeners = Append(@, Listener("updateend", "deferred", p))]
          ELSE PerformAppend(sourceBuffer, p)
    /\ UNCHANGED <<now, cacheVars, isInitialized, activeStreams, aborted, state,
                   audioElement, requests, emitted, listenerVars, managerVars>>

\* The append under way comes to its end: the buffer stops updating and, when
\* the append succeeded, holds its data; `error` is fired first when it
\* failed, then `updateend`.
UpdateEnd(ok) ==
    /\ sourceBuffer.updating
    /\ LET ended == [sourceBuffer EXCEPT
                        !.updating = FALSE, !.taking = <<>>,
                        !.buffered = IF ok THEN Append(@, sourceBuffer.taking) ELSE @]
           st0 == [sb |-> ended, appends |-> appends]
           st1 == IF ok THEN st0 ELSE DispatchEvent(st0, ListenersFor(ended, "error"))
           st2 == DispatchEvent(st1, ListenersFor(st1.sb, "updateend"))
       IN  /\ sourceBuffer' = st2.sb
           /\ appends' = st2.appends
    /\ UNCHANGED <<now, cacheVars, isInitialized, activeStreams, aborted, state,
                   audioElement, requests, emitted, listenerVars, managerVars>>

\* The timer of a call fires before its promise is settled: the promise
\* rejects with 'SourceBuffer append timeout'.
AppendTimeout(p) ==
    /\ appends[p] = "pending"
    /\ appends' = [appends EXCEPT ![p] = "rejected"]
    /\ UNCHANGED <<now, cacheVars, isInitialized, activeStreams, aborted, state,
                   audioElement, requests, emitted, sourceBuffer, listenerVars, managerVars>>

\* ------------------------------------------ AudioStreamer: event callbacks

\* No _emitEvent yet.
\*   invoked   the callbacks invoked, in order
\*   logged    the exceptions caught and logged
\*   escaped   an exception left _emitEvent
\*   registered  the callbacks of the type when the event was emitted
NoDispatch ==
    [type |-> "", registered |-> <<>>, invoked |-> <<>>, logged |-> 0,
     escaped |-> FALSE]

\* callbacks.forEach with no try/catch around the callback: the first
\* exception ends the loop and leaves _emitEvent.
InvokeAllUncaught(callbacks) ==
    LET throwers == {i \in 1..Len(callbacks) : callbacks[i] \in ThrowingCallbacks}
    IN  IF throwers = {}
        THEN [NoDispatch EXCEPT !.invoked = callbacks]
        ELSE [NoDispatch EXCEPT
                 !.invoked = SubSeq(callbacks, 1,
                                    CHOOSE i \in throwers : \A j \in throwers : i <= j),
                 !.escaped = TRUE]

\* The loop of _emitEvent from some callback on: the callback is invoked in a
\* try block, and an exception it throws is caught and logged.
RECURSIVE InvokeFrom(_, _)
InvokeFrom(callbacks, d) ==
    IF callbacks = <<>> THEN d
    ELSE InvokeFrom(Tail(callbacks),
                    [d EXCEPT !.invoked = Append(@, Head(callbacks)),
                              !.logged = IF Head(callbacks) \in ThrowingCallbacks
                                         THEN @ + 1 ELSE @])

\* callbacks.forEach(callback => { try { callback(event) } catch ... })
InvokeAll(callbacks) == InvokeFrom(callbacks, NoDispatch)

\* on(eventType, callback): the callback is pushed to the type's array.
On(type, cb) ==
    /\ Len(eventCallbacks[type]) < MaxCallbacks
    /\ eventCallbacks' = [eventCallbacks EXCEPT ![type] = Append(@, cb)]
    /\ dropped' = [dropped EXCEPT ![type] = @ \ {cb}]
    /\ UNCHANGED <<now, cacheVars, isInitialized, activeStreams, aborted, state,
                   audioElement, requests, emitted, sinkVars, dispatched, managerVars>>

\* off(eventType, callback): the first occurrence of the callback is spliced
\* out of the type's array.
Off(type, cb) ==
    /\ \E i \in 1..Len(eventCallbacks[type]) : eventCallbacks[type][i] = cb
    /\ LET callbacks == eventCallbacks[type]
           index == CHOOSE i \in 1..Len(callbacks) :
                        /\ callbacks[i] = cb
                        /\ \A j \in 1..(i - 1) : callbacks[j] # cb
       IN  eventCallbacks' = [eventCallbacks EXCEPT ![type] =
               SubSeq(callbacks, 1, index - 1) \o SubSeq(callbacks, index + 1, Len(callbacks))]
    /\ UNCHANGED <<now, cacheVars, isInitialized, activeStreams, aborted, state,
                   audioElement, requests, emitted, sinkVars, dispatched, dropped,
                   managerVars>>

\* _emitEvent(type, ...), wherever the streamer calls it: every callback of
\* the type is handed the event.
EmitEvent(type) ==
    /\ dispatched' = [InvokeAll(eventCallbacks[type]) EXCEPT
                         !.type = type, !.registered = eventCallbacks[type]]
    /\ UNCHANGED <<now, cacheVars, isInitialized, activeStreams, aborted, state,
                   audioElement, requests, emitted, sinkVars, eventCallbacks, dropped,
                   managerVars>>

\* ------------------------------------------------ AudioStreamer: the state

\* The audio element with no source.  onEnded, wavCanPlay, wavPlay and
\* wavProgress are the requests whose listeners the streamer has added to the
\* element besides those of its constructor: the `ended` listener of
\* _setupPlaybackPromises and the three listeners of the WAV path.
NoSource == [kind |-> "none", request |-> ""]

NewAudioElement ==
    [src |-> NoSource, paused |-> TRUE, ended |-> FALSE, buffered |-> 0,
     endOfStream |-> FALSE, playEvent |-> FALSE,
     onEnded |-> {}, wavCanPlay |-> {}, wavPlay |-> {}, wavProgress |-> {}]

\* A request that has not been made.
\*   pc        streamFromUrl / streamFromResponse: "none", "fetch", "initialize", "get",
\*             "process", "fill", "set", "returned" (the StreamResult is with the
\*             caller), "rejected"
\*   filled    chunks _cacheFromResponse has read
\*   chunks    the array _cacheFromResponse pushes them to
\*   broken    the body of the response has errored: every later read rejects
\*   feed      _streamForPlayback: "none", "read1", "sourceopen", "append1", "read",
\*             "append", "play", "playFinal", "done"
\*   fed       chunks _streamForPlayback has read
\*   appended  the chunks its SourceBuffer has taken in
\*   onLoaded, onEnded   the promises: "pending", "resolved", "rejected"
\* and, read by the properties only,
\*   fetches     network fetches issued for the request
\*   cacheHit    cacheHit was emitted for it
\*   cancelled   cancel() of its StreamResult was called
\*   cut         cancel() aborted it while its playback feed was under way
\*   plays       calls of play() by its playback feed
\*   sufficient  after an append, the feed found or would have found the buffer sufficient
\*   playedOut   the element played its source to the end
\*   fillError   a read of _cacheFromResponse rejected
\*   fillCut     _cacheFromResponse found the request aborted
\*   feedError   "none", or how the catch block of _streamForPlayback ended:
\*               "reported" (onLoaded rejected, error emitted) or "silent"
NoRequest ==
    [pc |-> "none", id |-> "", body |-> <<>>, contentType |-> "", filled |-> 0,
     chunks |-> <<>>, broken |-> FALSE,
     feed |-> "none", fed |-> 0, appended |-> <<>>, playbackStarted |-> FALSE,
     onLoaded |-> "pending", onEnded |-> "pending",
     fetches |-> 0, cacheHit |-> FALSE, cancelled |-> FALSE, cut |-> FALSE, plays |-> 0,
     sufficient |-> FALSE, playedOut |-> FALSE, fillError |-> FALSE,
     fillCut |-> FALSE,
     feedError |-> "none"]

\* The streamer after its constructor.
StreamerInit ==
    /\ isInitialized = FALSE
    /\ activeStreams = EmptyMap
    /\ aborted = [r \in Requests |-> FALSE]
    /\ state = [state |-> "idle", currentAudioId |-> "", canPlay |-> FALSE,
                bufferProgress |-> <<0, 1>>]
    /\ audioElement = NewAudioElement
    /\ requests = [r \in Requests |-> NoRequest]
    /\ emitted = <<>>
    /\ sourceBuffer = NewSourceBuffer
    /\ appends = [p \in AppendCalls |-> "none"]
    /\ eventCallbacks = [type \in EventTypes |-> <<>>]
    /\ dispatched = NoDispatch
    /\ dropped = [type \in EventTypes |-> {}]

\* _resetAudioElement: pause(), removeAttribute('src'), load().
ResetAudioElement(el) ==
    [el EXCEPT !.src = NoSource, !.paused = TRUE, !.ended = FALSE, !.buffered = 0,
               !.endOfStream = FALSE, !.playEvent = FALSE]

\* _setState: the state and the id it is about, and the stateChange it emits.
SetState(st, s, audioId) == [st EXCEPT !.state = s, !.currentAudioId = audioId]

StateChange(audioId) == <<"stateChange", audioId>>

\* _isBufferSufficient
IsBufferSufficient(el) == el.buffered > 0 /\ el.buffered >= Options.bufferThreshold

\* play() on the element: playback goes on and a play event is queued.
PlayElement(el) == [el EXCEPT !.paused = FALSE, !.playEvent = TRUE]

\* ---------------------------------------------- AudioStreamer: the requests

\* A cache call of request r has settled and the method awaiting it goes on
\* before anything else happens.
Continuing(r) == requests[r].pc \in {"initialize", "get", "set"} /\ calls[r].pc = "idle"

\* No method is about to go on after a cache call: tasks and events get their turn.
Uninterrupted == \A r \in Requests : ~Continuing(r)

\* The caller makes the next request once streamFromUrl has returned for the
\* one before and its playback feed has come to an end.
MayBegin(r) ==
    /\ requests[r].pc = "none"
    /\ \A i \in 1..Len(RequestOrder) :
          RequestOrder[i] = r =>
              \A j \in 1..(i - 1) :
                  /\ requests[RequestOrder[j]].pc \in {"returned", "rejected"}
                  /\ requests[RequestOrder[j]].feed \in {"none", "done"}

\* streamFromUrl(url, id): the fetch is sent first.
StreamFromUrl(r, id) ==
    /\ Uninterrupted
    /\ MayBegin(r)
    /\ requests' = [requests EXCEPT ![r] = [NoRequest EXCEPT !.pc = "fetch", !.id = id,
                                                             !.fetches = 1]]
    /\ emitted' = <<>>
    /\ UNCHANGED <<now, cacheVars, isInitialized, activeStreams, aborted, state,
                   audioElement>>
    /\ UNCHANGED <<sinkVars, listenerVars, managerVars>>

\* The caller makes the next request without awaiting the one before, once
\* that one has begun to stream.
MayOverlap(r) ==
    /\ requests[r].pc = "none"
    /\ \A i \in 1..Len(RequestOrder) :
          RequestOrder[i] = r =>
              \A j \in 1..(i - 1) :
                  requests[RequestOrder[j]].pc \notin {"none", "fetch", "initialize"}

\* streamFromUrl(url, id) while an earlier request may still be under way.
StreamFromUrlUnawaited(r, id) ==
    /\ Uninterrupted
    /\ MayOverlap(r)
    /\ requests' = [requests EXCEPT ![r] = [NoRequest EXCEPT !.pc = "fetch", !.id = id,
                                                             !.fetches = 1]]
    /\ emitted' = <<>>
    /\ UNCHANGED <<now, cacheVars, isInitialized, activeStreams, aborted, state,
                   audioElement>>
    /\ UNCHANGED <<sinkVars, listenerVars, managerVars>>

\* streamFromResponse once the streamer is initialized: the request's
\* AbortController is put under its id, then the cache is asked for the id.
BeginStream(r, req, events) ==
    /\ activeStreams' = MapPut(activeStreams, req.id, r)
    /\ requests' = [requests EXCEPT ![r] = [req EXCEPT !.pc = "get"]]
    /\ emitted' = events
    /\ Get(r, req.id)
    /\ UNCHANGED <<aborted, state, audioElement>>

\* The fetch settles.  A failure or a response that is not ok rejects
\* streamFromUrl with FETCH_ERROR; otherwise streamFromResponse begins with
\* `await this.initialize()`.
FetchDone(r, ok, body, contentType) ==
    /\ Uninterrupted
    /\ requests[r].pc = "fetch"
    /\ LET req == [requests[r] EXCEPT !.body = body, !.contentType = contentType]
       IN  IF ~ok
           THEN /\ requests' = [requests EXCEPT ![r].pc = "rejected"]
                /\ emitted' = <<>>
                /\ UNCHANGED <<now, cacheVars, isInitialized, activeStreams, aborted,
                               state, audioElement>>
           ELSE IF isInitialized
                THEN BeginStream(r, req, <<>>) /\ UNCHANGED isInitialized
                ELSE /\ requests' = [requests EXCEPT ![r] = [req EXCEPT !.pc = "initialize"]]
                     /\ emitted' = <<>>
                     /\ Initialize(r)
                     /\ UNCHANGED <<isInitialized, activeStreams, aborted, state,
                                    audioElement>>
    /\ UNCHANGED <<sinkVars, listenerVars, managerVars>>

\* AudioStreamer.initialize goes on after the cache's initialize().
InitializeReturned(r) ==
    /\ requests[r].pc = "initialize" /\ calls[r].pc = "idle"
    /\ IF results[r].status = "resolved"
       THEN /\ isInitialized' = TRUE
            /\ BeginStream(r, requests[r], << <<"loadStart", "">> >>)
       ELSE /\ requests' = [requests EXCEPT ![r].pc = "rejected"]
            /\ emitted' = <<>>
            /\ UNCHANGED <<now, cacheVars, isInitialized, activeStreams, aborted, state,
                           audioElement>>
    /\ UNCHANGED <<sinkVars, listenerVars, managerVars>>

\* streamFromResponse goes on after the cache's get(id):
\*   an entry: cacheHit, then _playFromCache up to the processor's await;
\*   null: cacheMiss, then _streamForPlayback up to its first read and
\*         _cacheFromResponse up to its first read;
\*   a rejection: the catch block.
GetReturned(r) ==
    /\ requests[r].pc = "get" /\ calls[r].pc = "idle"
    /\ LET req == requests[r]
           res == results[r]
       IN  CASE res.status = "rejected" ->
                  /\ activeStreams' = MapRemove(activeStreams, req.id)
                  /\ requests' = [requests EXCEPT ![r] =
                        [req EXCEPT !.pc = "returned", !.onLoaded = "rejected",
                                    !.onEnded = "rejected"]]
                  /\ emitted' = << <<"error", req.id>> >>
                  /\ UNCHANGED <<state, audioElement>>
             [] res.status # "rejected" /\ res.found ->
                  /\ state' = SetState(state, "loading", req.id)
                  /\ audioElement' = ResetAudioElement(audioElement)
                  /\ requests' = [requests EXCEPT ![r] =
                        [req EXCEPT !.pc = "process", !.cacheHit = TRUE,
                                    !.body = res.chunks]]
                  /\ emitted' = << <<"cacheHit", req.id>>, StateChange(req.id) >>
                  /\ UNCHANGED activeStreams
             [] OTHER ->
                  /\ state' = SetState(state, "streaming", req.id)
                  /\ audioElement' = ResetAudioElement(audioElement)
                  /\ requests' = [requests EXCEPT ![r] =
                        [req EXCEPT !.pc = "fill", !.feed = "read1"]]
                  /\ emitted' = << <<"cacheMiss", req.id>>, StateChange(req.id) >>
                  /\ UNCHANGED activeStreams
    /\ UNCHANGED <<now, cacheVars, isInitialized, aborted>>
    /\ UNCHANGED <<sinkVars, listenerVars, managerVars>>

\* _playFromCache goes on after processAudio: the trimmed audio becomes the
\* source, onLoaded resolves and _setupPlaybackPromises listens for the end;
\* a failure rejects both promises and reaches streamFromResponse's catch.
ProcessDone(r, ok) ==
    /\ Uninterrupted
    /\ requests[r].pc = "process"
    /\ LET req == requests[r]
       IN  IF ok
           THEN /\ audioElement' = [audioElement EXCEPT
                                       !.src = [kind |-> "blob", request |-> r],
                                       !.onEnded = @ \cup {r}]
                /\ requests' = [requests EXCEPT ![r] =
                      [req EXCEPT !.pc = "returned", !.onLoaded = "resolved"]]
                /\ emitted' = <<>>
                /\ UNCHANGED activeStreams
           ELSE /\ activeStreams' = MapRemove(activeStreams, req.id)
                /\ requests' = [requests EXCEPT ![r] =
                      [req EXCEPT !.pc = "returned", !.onLoaded = "rejected",
                                  !.onEnded = "rejected"]]
                /\ emitted' = << <<"error", req.id>> >>
                /\ UNCHANGED audioElement
    /\ UNCHANGED <<now, cacheVars, isInitialized, aborted, state>>
    /\ UNCHANGED <<sinkVars, listenerVars, managerVars>>

\* reader.read() handing out the first chunk at every read.
ReadFirstAgain(body, n) == body[1]

\* reader.read() resolving for the n-th time on a body that has that many
\* chunks.  response.clone() gives either consumer every chunk, in order.
ReadChunk(body, n) == body[n]

\* The body of the response errors while it is still being delivered: the
\* reads of both consumers reject from now on.
BodyError(r) ==
    /\ Uninterrupted
    /\ requests[r].pc = "fill" /\ ~requests[r].broken
    /\ requests' = [requests EXCEPT ![r].broken = TRUE]
    /\ emitted' = <<>>
    /\ UNCHANGED <<now, cacheVars, isInitialized, activeStreams, aborted, state,
                   audioElement>>
    /\ UNCHANGED <<sinkVars, listenerVars, managerVars>>

\* _cacheFromResponse: a read of the response body rejects.  The catch block
\* logs it and nothing is set.
FillFail(r) ==
    /\ Uninterrupted
    /\ requests[r].pc = "fill" /\ requests[r].broken
    /\ requests' = [requests EXCEPT ![r].pc = "returned", ![r].fillError = TRUE]
    /\ emitted' = <<>>
    /\ UNCHANGED <<now, cacheVars, isInitialized, activeStreams, aborted, state,
                   audioElement>>
    /\ UNCHANGED <<sinkVars, listenerVars, managerVars>>

\* The test before the set left out: whatever has been read is stored.
MayStoreAnyway(isAborted, chunks) == Len(chunks) > 0

\* `if (!signal.aborted && chunks.length > 0)` before the set.
MayStore(isAborted, chunks) == ~isAborted /\ Len(chunks) > 0

\* _cacheFromResponse: a read of the response body settles.  A chunk is pushed
\* and the loop goes on unless the request was aborted; at the end of the body
\* or out of the loop, the chunks are set in the cache if they may be.
FillRead(r) ==
    /\ Uninterrupted
    /\ requests[r].pc = "fill" /\ ~requests[r].broken
    /\ LET req == requests[r]
           done == req.filled = Len(req.body)
           chunks == IF done THEN req.chunks
                     ELSE Append(req.chunks, ReadChunk(req.body, req.filled + 1))
           read == [req EXCEPT !.chunks = chunks,
                               !.filled = IF done THEN @ ELSE @ + 1]
       IN  IF ~done /\ ~aborted[r]
           THEN /\ requests' = [requests EXCEPT ![r] = read]
                /\ UNCHANGED <<now, cacheVars>>
           ELSE IF MayStore(aborted[r], chunks)
                THEN /\ requests' = [requests EXCEPT ![r] = [read EXCEPT !.pc = "set"]]
                     /\ Set(r, req.id, chunks,
                            IF req.contentType # "" THEN req.contentType ELSE "audio/mpeg",
                            {})
                ELSE /\ requests' = [requests EXCEPT ![r] =
                           [read EXCEPT !.pc = "returned", !.fillCut = aborted[r]]]
                     /\ UNCHANGED <<now, cacheVars>>
    /\ emitted' = <<>>
    /\ UNCHANGED <<isInitialized, activeStreams, aborted, state, audioElement>>
    /\ UNCHANGED <<sinkVars, listenerVars, managerVars>>

\* streamFromResponse goes on after _cacheFromResponse and returns the
\* StreamResult; a failed set is only logged.
SetReturned(r) ==
    /\ requests[r].pc = "set" /\ calls[r].pc = "idle"
    /\ requests' = [requests EXCEPT ![r].pc = "returned"]
    /\ emitted' = <<>>
    /\ UNCHANGED <<now, cacheVars, isInitialized, activeStreams, aborted, state,
                   audioElement>>
    /\ UNCHANGED <<sinkVars, listenerVars, managerVars>>

\* cancel() of the StreamResult of request r, that is _cancelStream(id): the
\* AbortController found under the id is aborted and removed.
Cancel(r) ==
    /\ Uninterrupted
    /\ requests[r].pc = "returned" /\ ~requests[r].cancelled
    /\ LET id == requests[r].id
       IN  IF id \in DOMAIN activeStreams
           THEN /\ aborted' = [aborted EXCEPT ![activeStreams[id]] = TRUE]
                /\ activeStreams' = MapRemove(activeStreams, id)
           ELSE UNCHANGED <<aborted, activeStreams>>
    /\ requests' = [requests EXCEPT
          ![r].cancelled = TRUE,
          ![r].cut = /\ requests[r].id \in DOMAIN activeStreams
                     /\ activeStreams[requests[r].id] = r
                     /\ requests[r].feed \notin {"none", "done"}]
    /\ emitted' = <<>>
    /\ UNCHANGED <<now, cacheVars, isInitialized, state, audioElement>>
    /\ UNCHANGED <<sinkVars, listenerVars, managerVars>>

\* dispose(), called while no initialization of the cache is under way: every
\* controller in _activeStreams is aborted, the map and the callbacks are
\* cleared, the cache is closed, the element is reset and the streamer is no
\* longer initialized.  The listeners the constructor added to the element
\* stay on it.
Dispose ==
    /\ Uninterrupted
    /\ initStep = "none"
    /\ aborted' = [r \in Requests |->
                      aborted[r] \/ \E id \in DOMAIN activeStreams : activeStreams[id] = r]
    /\ activeStreams' = EmptyMap
    /\ eventCallbacks' = [type \in EventTypes |-> <<>>]
    /\ dropped' = [type \in EventTypes |->
                      dropped[type] \cup {eventCallbacks[type][i] :
                                             i \in 1..Len(eventCallbacks[type])}]
    /\ db' = FALSE
    /\ memoryCache' = EmptyMap
    /\ accessCounts' = EmptyMap
    /\ initPromise' = "null"
    /\ audioElement' = ResetAudioElement(audioElement)
    /\ isInitialized' = FALSE
    /\ emitted' = <<>>
    /\ UNCHANGED <<now, initStep, initWaiters, durable, totalAccesses, cacheHits,
                   stats, calls, idbQueue, results, lastSet, hist>>
    /\ UNCHANGED <<state, requests, sinkVars, dispatched, managerVars>>

\* ------------------------------------------ AudioStreamer: the playback feed

MediaSourceOf(r) == [kind |-> "mediaSource", request |-> r]

\* The first read of _streamForPlayback settles.  Nothing read, or the request
\* aborted: the feed returns.  A WAV body: the element is pointed at the
\* response's URL, three listeners are added and onLoaded resolves.  Any other
\* body: a MediaSource becomes the element's source.
FeedFirstRead(r) ==
    /\ Uninterrupted
    /\ requests[r].feed = "read1" /\ ~requests[r].broken
    /\ LET req == requests[r]
       IN  IF req.body = <<>> \/ aborted[r]
           THEN /\ requests' = [requests EXCEPT ![r].feed = "done"]
                /\ UNCHANGED audioElement
           ELSE IF DetectAudioFormat(req.body[1]).requiresConversion
                   /\ DetectAudioFormat(req.body[1]).type = "wav"
                THEN /\ audioElement' = [audioElement EXCEPT
                                            !.src = [kind |-> "url", request |-> r],
                                            !.wavCanPlay = @ \cup {r},
                                            !.wavPlay = @ \cup {r},
                                            !.wavProgress = @ \cup {r}]
                     /\ requests' = [requests EXCEPT ![r] =
                           [req EXCEPT !.feed = "done",
                                       !.onLoaded = SettleOnce(@, "resolved")]]
                ELSE /\ audioElement' = [audioElement EXCEPT !.src = MediaSourceOf(r)]
                     /\ requests' = [requests EXCEPT ![r] =
                           [req EXCEPT !.feed = "sourceopen", !.fed = 1]]
    /\ emitted' = <<>>
    /\ UNCHANGED <<now, cacheVars, isInitialized, activeStreams, aborted, state>>
    /\ UNCHANGED <<sinkVars, listenerVars, managerVars>>

\* The MediaSource opens, its SourceBuffer is created and the first chunk is
\* handed to it.
FeedSourceOpen(r) ==
    /\ Uninterrupted
    /\ requests[r].feed = "sourceopen"
    /\ audioElement.src = MediaSourceOf(r)
    /\ requests' = [requests EXCEPT ![r].feed = "append1"]
    /\ emitted' = <<>>
    /\ UNCHANGED <<now, cacheVars, isInitialized, activeStreams, aborted, state,
                   audioElement>>
    /\ UNCHANGED <<sinkVars, listenerVars, managerVars>>

\* The catch block of _streamForPlayback ending the fill of the request as well.
FeedFailEndsFill(r) ==
    /\ Uninterrupted
    /\ \/ requests[r].feed \in {"sourceopen", "append1", "append"}
       \/ requests[r].feed \in {"read1", "read"} /\ requests[r].broken
    /\ requests' = [requests EXCEPT ![r] =
          [@ EXCEPT !.feed = "done",
                    !.pc = IF @ = "fill" THEN "returned" ELSE @,
                    !.feedError = IF aborted[r] THEN "silent" ELSE "reported",
                    !.onLoaded = IF aborted[r] THEN @ ELSE SettleOnce(@, "rejected")]]
    /\ emitted' = IF aborted[r] THEN <<>> ELSE << <<"error", requests[r].id>> >>
    /\ UNCHANGED <<now, cacheVars, isInitialized, activeStreams, aborted, state,
                   audioElement>>
    /\ UNCHANGED <<sinkVars, listenerVars, managerVars>>

\* An await of the feed rejects (a read of an errored body, the MediaSource
\* does not open, no SourceBuffer can be created, an append fails or times
\* out): the catch block.
FeedFail(r) ==
    /\ Uninterrupted
    /\ \/ requests[r].feed \in {"sourceopen", "append1", "append"}
       \/ requests[r].feed \in {"read1", "read"} /\ requests[r].broken
    /\ requests' = [requests EXCEPT ![r] =
          [@ EXCEPT !.feed = "done",
                    !.feedError = IF aborted[r] THEN "silent" ELSE "reported",
                    !.onLoaded = IF aborted[r] THEN @ ELSE SettleOnce(@, "rejected")]]
    /\ emitted' = IF aborted[r] THEN <<>> ELSE << <<"error", requests[r].id>> >>
    /\ UNCHANGED <<now, cacheVars, isInitialized, activeStreams, aborted, state,
                   audioElement>>
    /\ UNCHANGED <<sinkVars, listenerVars, managerVars>>

\* The loop of the feed without the test of signal.aborted.
LoopTestBlind(r) == "read"

\* The test of the loop `while (!streamEnded && !signal.aborted)` when the
\* stream has not ended: the next read, or the way out, where an aborted
\* request neither ends the stream nor starts playback.
LoopTest(r) == IF aborted[r] THEN "done" ELSE "read"

\* An append completes (updateend) and the buffered range grows by d seconds.
\* After the first chunk the loop begins; after a later one playback is started
\* if it has not been and the buffer is sufficient.
FeedAppendDone(r, d) ==
    /\ Uninterrupted
    /\ requests[r].feed \in {"append1", "append"}
    /\ audioElement.src = MediaSourceOf(r)
    /\ LET req == requests[r]
           el == [audioElement EXCEPT !.buffered = @ + d]
           enough == IsBufferSufficient(el)
           taken == Append(req.appended, ReadChunk(req.body, req.fed))
       IN  IF req.feed = "append" /\ ~req.playbackStarted /\ enough
           THEN /\ requests' = [requests EXCEPT ![r] =
                      [req EXCEPT !.feed = "play", !.playbackStarted = TRUE,
                                  !.appended = taken,
                                  !.onLoaded = SettleOnce(@, "resolved"),
                                  !.plays = @ + 1, !.sufficient = TRUE]]
                /\ state' = SetState(state, "playing", req.id)
                /\ emitted' = << StateChange(req.id), <<"canPlay", req.id>> >>
                /\ audioElement' = el
           ELSE /\ requests' = [requests EXCEPT ![r] =
                      [req EXCEPT !.feed = LoopTest(r), !.appended = taken,
                                  !.sufficient = @ \/ enough]]
                /\ emitted' = <<>>
                /\ audioElement' = el
                /\ UNCHANGED state
    /\ UNCHANGED <<now, cacheVars, isInitialized, activeStreams, aborted>>
    /\ UNCHANGED <<sinkVars, listenerVars, managerVars>>

\* A read of the loop settles.  A chunk is handed to the SourceBuffer.  At the
\* end of the body the stream is ended and, if playback never started, it is
\* started now; neither for an aborted request.
FeedRead(r) ==
    /\ Uninterrupted
    /\ requests[r].feed = "read" /\ ~requests[r].broken
    /\ LET req == requests[r]
       IN  IF req.fed < Len(req.body)
           THEN /\ requests' = [requests EXCEPT ![r] =
                      [req EXCEPT !.feed = "append", !.fed = @ + 1]]
                /\ emitted' = <<>>
                /\ UNCHANGED <<state, audioElement>>
           ELSE /\ audioElement' =
                      IF ~aborted[r] /\ audioElement.src = MediaSourceOf(r)
                      THEN [audioElement EXCEPT !.endOfStream = TRUE]
                      ELSE audioElement
                /\ IF ~req.playbackStarted /\ ~aborted[r]
                   THEN /\ requests' = [requests EXCEPT ![r] =
                              [req EXCEPT !.feed = "playFinal",
                                          !.onLoaded = SettleOnce(@, "resolved"),
                                          !.plays = @ + 1]]
                        /\ state' = SetState(state, "playing", req.id)
                        /\ emitted' = << StateChange(req.id) >>
                   ELSE /\ requests' = [requests EXCEPT ![r].feed = "done"]
                        /\ emitted' = <<>>
                        /\ UNCHANGED state
    /\ UNCHANGED <<now, cacheVars, isInitialized, activeStreams, aborted>>
    /\ UNCHANGED <<sinkVars, listenerVars, managerVars>>

\* The promise of play() settles: playback runs and playStart is emitted, or
\* the rejection is logged.
FeedPlayDone(r, ok) ==
    /\ Uninterrupted
    /\ requests[r].feed \in {"play", "playFinal"}
    /\ ok => audioElement.src.kind # "none"
    /\ audioElement' = IF ok THEN PlayElement(audioElement) ELSE audioElement
    /\ emitted' = IF ok THEN << <<"playStart", requests[r].id>> >> ELSE <<>>
    /\ requests' = [requests EXCEPT ![r].feed =
                       IF @ = "play" THEN LoopTest(r) ELSE "done"]
    /\ UNCHANGED <<now, cacheVars, isInitialized, activeStreams, aborted, state>>
    /\ UNCHANGED <<sinkVars, listenerVars, managerVars>>

\* ------------------------- AudioStreamer: a cached entry, trimming disabled

\* streamFromResponse goes on after the cache's get(id) in a streamer made
\* with enableTrimming false.  An entry: cacheHit, then _playFromCache, where
\* _createMediaSourceFromChunks makes a MediaSource and leaves the appending
\* to its sourceopen, the MediaSource becomes the element's source,
\* _setupPlaybackPromises listens for the end and the StreamResult is
\* returned.  Anything else: as with trimming enabled.
GetReturnedUntrimmed(r) ==
    /\ requests[r].pc = "get" /\ calls[r].pc = "idle"
    /\ IF results[r].status # "rejected" /\ results[r].found
       THEN /\ state' = SetState(state, "loading", requests[r].id)
            /\ audioElement' = [ResetAudioElement(audioElement) EXCEPT
                                    !.src = MediaSourceOf(r), !.onEnded = @ \cup {r}]
            /\ requests' = [requests EXCEPT ![r] =
                  [@ EXCEPT !.pc = "returned", !.cacheHit = TRUE,
                            !.body = results[r].chunks, !.feed = "cachedOpen"]]
            /\ emitted' = << <<"cacheHit", requests[r].id>>, StateChange(requests[r].id) >>
            /\ UNCHANGED <<now, cacheVars, isInitialized, activeStreams, aborted>>
            /\ UNCHANGED <<sinkVars, listenerVars, managerVars>>
       ELSE GetReturned(r)

\* The MediaSource of _createMediaSourceFromChunks opens.  A WAV entry: the
\* element is pointed at a blob of the chunks, its listeners are added and
\* onLoaded resolves.  Any other entry: the SourceBuffer is created and the
\* first chunk is handed to it; if none can be created onLoaded is rejected.
CachedSourceOpen(r, ok) ==
    /\ Uninterrupted
    /\ requests[r].feed = "cachedOpen"
    /\ audioElement.src = MediaSourceOf(r)
    /\ LET req == requests[r]
       IN  IF req.body = <<>> \/ ~ok
           THEN /\ requests' = [requests EXCEPT ![r] =
                      [req EXCEPT !.feed = "done",
                                  !.onLoaded = SettleOnce(@, "rejected")]]
                /\ UNCHANGED audioElement
           ELSE IF DetectAudioFormat(req.body[1]).requiresConversion
                   /\ DetectAudioFormat(req.body[1]).type = "wav"
                THEN /\ audioElement' = [audioElement EXCEPT
                                            !.src = [kind |-> "blob", request |-> r],
                                            !.wavCanPlay = @ \cup {r},
                                            !.wavPlay = @ \cup {r}]
                     /\ requests' = [requests EXCEPT ![r] =
                           [req EXCEPT !.feed = "done",
                                       !.onLoaded = SettleOnce(@, "resolved")]]
                ELSE /\ requests' = [requests EXCEPT ![r] =
                           [req EXCEPT !.feed = "cachedAppend", !.fed = 1]]
                     /\ UNCHANGED audioElement
    /\ emitted' = <<>>
    /\ UNCHANGED <<now, cacheVars, isInitialized, activeStreams, aborted, state>>
    /\ UNCHANGED <<sinkVars, listenerVars, managerVars>>

\* An append of the loop over the cached chunks completes and the buffered
\* range grows by d seconds: the next chunk is handed over, or after the last
\* one the stream is ended and onLoaded resolves.
CachedAppendDone(r, d) ==
    /\ Uninterrupted
    /\ requests[r].feed = "cachedAppend"
    /\ audioElement.src = MediaSourceOf(r)
    /\ LET req == requests[r]
           taken == Append(req.appended, req.body[req.fed])
       IN  IF req.fed < Len(req.body)
           THEN /\ requests' = [requests EXCEPT ![r] =
                      [req EXCEPT !.appended = taken, !.fed = @ + 1]]
                /\ audioElement' = [audioElement EXCEPT !.buffered = @ + d]
           ELSE /\ requests' = [requests EXCEPT ![r] =
                      [req EXCEPT !.appended = taken, !.feed = "done",
                                  !.onLoaded = SettleOnce(@, "resolved")]]
                /\ audioElement' = [audioElement EXCEPT !.buffered = @ + d,
                                                        !.endOfStream = TRUE]
    /\ emitted' = <<>>
    /\ UNCHANGED <<now, cacheVars, isInitialized, activeStreams, aborted, state>>
    /\ UNCHANGED <<sinkVars, listenerVars, managerVars>>

\* An append of that loop fails or times out: onLoaded is rejected.
CachedAppendFail(r) ==
    /\ Uninterrupted
    /\ requests[r].feed = "cachedAppend"
    /\ requests' = [requests EXCEPT ![r] =
          [@ EXCEPT !.feed = "done", !.onLoaded = SettleOnce(@, "rejected")]]
    /\ emitted' = <<>>
    /\ UNCHANGED <<now, cacheVars, isInitialized, activeStreams, aborted, state,
                   audioElement>>
    /\ UNCHANGED <<sinkVars, listenerVars, managerVars>>

\* ----------------------------- AudioStreamer: requests with justCache

\* `if (options.justCache)` after _cacheFromResponse: both promises of the
\* request are resolved and the StreamResult is returned.
JustCacheReturned(req) ==
    [req EXCEPT !.pc = "returned", !.onLoaded = "resolved", !.onEnded = "resolved"]

\* streamFromResponse(response, id, {justCache: true}) goes on after the
\* cache's get(id).  On null cacheMiss is emitted, _streamForPlayback is not
\* called and _cacheFromResponse runs up to its first read; an entry or a
\* rejection goes the way of every request.
GetReturnedJustCache(r) ==
    IF requests[r].pc = "get" /\ calls[r].pc = "idle"
       /\ results[r].status # "rejected" /\ ~results[r].found
    THEN /\ requests' = [requests EXCEPT ![r].pc = "fill"]
         /\ emitted' = << <<"cacheMiss", requests[r].id>> >>
         /\ UNCHANGED <<now, cacheVars, isInitialized, activeStreams, aborted, state,
                        audioElement>>
         /\ UNCHANGED <<sinkVars, listenerVars, managerVars>>
    ELSE GetReturned(r)

\* _cacheFromResponse of such a request: a read of the response body rejects.
\* The catch block logs it, nothing is set, and streamFromResponse goes on.
FillFailJustCache(r) ==
    /\ Uninterrupted
    /\ requests[r].pc = "fill" /\ requests[r].broken
    /\ requests' = [requests EXCEPT ![r] =
          JustCacheReturned([requests[r] EXCEPT !.fillError = TRUE])]
    /\ emitted' = <<>>
    /\ UNCHANGED <<now, cacheVars, isInitialized, activeStreams, aborted, state,
                   audioElement>>
    /\ UNCHANGED <<sinkVars, listenerVars, managerVars>>

\* _cacheFromResponse of such a request: a read of the response body settles.
\* When nothing may be set, streamFromResponse goes on at once.
FillReadJustCache(r) ==
    /\ Uninterrupted
    /\ requests[r].pc = "fill" /\ ~requests[r].broken
    /\ LET req == requests[r]
           done == req.filled = Len(req.body)
           chunks == IF done THEN req.chunks
                     ELSE Append(req.chunks, ReadChunk(req.body, req.filled + 1))
           read == [req EXCEPT !.chunks = chunks,
                               !.filled = IF done THEN @ ELSE @ + 1]
       IN  IF ~done /\ ~aborted[r]
           THEN /\ requests' = [requests EXCEPT ![r] = read]
                /\ UNCHANGED <<now, cacheVars>>
           ELSE IF MayStore(aborted[r], chunks)
                THEN /\ requests' = [requests EXCEPT ![r] = [read EXCEPT !.pc = "set"]]
                     /\ Set(r, req.id, chunks,
                            IF req.contentType # "" THEN req.contentType ELSE "audio/mpeg",
                            {})
                ELSE /\ requests' = [requests EXCEPT ![r] =
                           JustCacheReturned([read EXCEPT !.fillCut = aborted[r]])]
                     /\ UNCHANGED <<now, cacheVars>>
    /\ emitted' = <<>>
    /\ UNCHANGED <<isInitialized, activeStreams, aborted, state, audioElement>>
    /\ UNCHANGED <<sinkVars, listenerVars, managerVars>>

\* streamFromResponse of such a request goes on after _cacheFromResponse,
\* whose catch block has logged a set that failed.
SetReturnedJustCache(r) ==
    /\ requests[r].pc = "set" /\ calls[r].pc = "idle"
    /\ requests' = [requests EXCEPT ![r] = JustCacheReturned(requests[r])]
    /\ emitted' = <<>>
    /\ UNCHANGED <<now, cacheVars, isInitialized, activeStreams, aborted, state,
                   audioElement>>
    /\ UNCHANGED <<sinkVars, listenerVars, managerVars>>

\* -------------------------------- MediaSourceHelper.createSourceBuffer

\* The default of the retryCount parameter and the unit of the delay, in ms.
DefaultRetryCount == 3
RetryDelayMs == 100

\* No createSourceBuffer call yet.
\*   pc          "none", "try" (about to call addSourceBuffer), "wait" (awaiting
\*               the timer), "returned" (the SourceBuffer), "thrown" (the
\*               MediaSourceError)
\*   retryCount  the argument, or the default
\*   attempt     the loop variable
\*   lastError   <<>> for null, or the error caught last
\*   cause       the cause of the MediaSourceError thrown
\* and, read by the properties only,
\*   byDefault   the call left retryCount out
\*   tried       calls of addSourceBuffer
\*   waits       the delays of the timers awaited, in order
\*   failures    what addSourceBuffer threw, in order
NoCreation ==
    [pc |-> "none", retryCount |-> 0, attempt |-> 0, lastError |-> <<>>,
     cause |-> <<>>, byDefault |-> FALSE, tried |-> 0, waits |-> <<>>,
     failures |-> <<>>]

\* The delay with a constant in place of 100 * (attempt + 1).
RetryDelayFlat(attempt) == RetryDelayMs

\* `100 * (attempt + 1)`
RetryDelay(attempt) == RetryDelayMs * (attempt + 1)

\* The test of the loop `attempt < retryCount`: the next try, or the throw
\* of the MediaSourceError that wraps lastError.
LoopOrThrow(call) ==
    IF call.attempt < call.retryCount
    THEN [call EXCEPT !.pc = "try"]
    ELSE [call EXCEPT !.pc = "thrown", !.cause = call.lastError]

\* createSourceBuffer(mediaSource, mimeType, retryCount), once the call before
\* has settled.
CreateSourceBuffer(retryCount, byDefault) ==
    /\ creation.pc \in {"none", "returned", "thrown"}
    /\ byDefault => retryCount = DefaultRetryCount
    /\ creation' = LoopOrThrow([NoCreation EXCEPT !.retryCount = retryCount,
                                                  !.byDefault = byDefault])
    /\ UNCHANGED besideCreation

\* addSourceBuffer returns the SourceBuffer, which is returned.
AddSourceBufferDone ==
    /\ creation.pc = "try"
    /\ creation' = [creation EXCEPT !.pc = "returned", !.tried = @ + 1]
    /\ UNCHANGED besideCreation

\* addSourceBuffer throws: the error is kept and, unless this was the last
\* attempt, a timer is awaited.
AddSourceBufferThrown(error) ==
    /\ creation.pc = "try"
    /\ LET caught == [creation EXCEPT !.tried = @ + 1, !.lastError = <<error>>,
                                      !.failures = Append(@, error)]
       IN  creation' =
              IF caught.attempt < caught.retryCount - 1
              THEN [caught EXCEPT !.pc = "wait",
                                  !.waits = Append(@, RetryDelay(caught.attempt))]
              ELSE LoopOrThrow([caught EXCEPT !.attempt = @ + 1])
    /\ UNCHANGED besideCreation

\* The timer fires: the next turn of the loop.
RetryTimerFired ==
    /\ creation.pc = "wait"
    /\ creation' = LoopOrThrow([creation EXCEPT !.attempt = @ + 1])
    /\ UNCHANGED besideCreation

\* ------------------------------------------------- the cache, used directly

InitCache ==
    /\ db = FALSE
    /\ initPromise = "null"
    /\ initStep = "none"
    /\ initWaiters = <<>>
    /\ memoryCache = EmptyMap
    /\ accessCounts = EmptyMap
    /\ totalAccesses = 0
    /\ cacheHits = 0
    /\ stats = [entryCount |-> 0, totalSize |-> 0, hitRatio |-> <<0, 1>>]
    /\ calls = [c \in Callers |-> IdleCall]
    /\ idbQueue = <<>>
    /\ results = [c \in Callers |-> NoResult]
    /\ lastSet = [id \in Ids |-> <<>>]
    /\ hist = [gets |-> 0, hits |-> 0, allGets |-> 0, allHits |-> 0, fresh |-> TRUE,
               reads |-> [id \in Ids |-> 0]]

\* The store is empty when the database is first created.
CacheInit ==
    /\ now = 0
    /\ durable = EmptyMap
    /\ InitCache

\* ----------------------------------------------------- SoundEffectsManager

\* A playSound call not made yet.
\*   pc      "none", "initialize" (awaiting initialize()), "create" (awaiting
\*           the cache and the fetch in _createAudioElement), "play" (awaiting
\*           play()), "done"
\*   key     the key it was called with
\*   result  "none", "element", "null" or "thrown"
NoPlayCall == [pc |-> "none", key |-> <<>>, result |-> "none"]

\* The manager after its constructor.
SoundsInit ==
    /\ soundsInitialized = FALSE
    /\ soundEffects = {}
    /\ activeSounds = EmptyMap
    /\ soundState = [state |-> "idle", totalSounds |-> 0, activeSounds |-> 0,
                     canPlay |-> FALSE]
    /\ playCalls = [c \in PlayCalls |-> NoPlayCall]
    /\ playing = {}

\* String(n) of a number that is not negative, as its characters.
DigitChars == <<"0", "1", "2", "3", "4", "5", "6", "7", "8", "9">>

RECURSIVE DecimalOf(_)
DecimalOf(n) ==
    IF n < 10 THEN <<DigitChars[n + 1]>>
    ELSE DecimalOf(n \div 10) \o <<DigitChars[(n % 10) + 1]>>

\* `${String(key)}-${Date.now()}`
SoundKeyOf(key, time) == key \o <<"-">> \o DecimalOf(time)

\* String.prototype.startsWith
StartsWith(str, prefix) ==
    /\ Len(str) >= Len(prefix)
    /\ SubSeq(str, 1, Len(prefix)) = prefix

\* _updateState
UpdateSoundState(st, effects, active) ==
    [st EXCEPT !.totalSounds = Cardinality(effects),
               !.activeSounds = Cardinality(DOMAIN active),
               !.canPlay = Cardinality(effects) > 0]

\* registerSound(key, url): preload is off by default.
RegisterSound(key) ==
    /\ soundEffects' = soundEffects \cup {key}
    /\ soundState' = UpdateSoundState(soundState, soundEffects', activeSounds)
    /\ UNCHANGED <<soundsInitialized, activeSounds, playCalls, playing>>
    /\ UNCHANGED besideSounds

\* playSound(key) is called: it awaits initialize().
PlaySound(c, key) ==
    /\ playCalls[c].pc = "none"
    /\ playCalls' = [playCalls EXCEPT ![c] = [NoPlayCall EXCEPT !.pc = "initialize",
                                                               !.key = key]]
    /\ UNCHANGED <<soundsInitialized, soundEffects, activeSounds, soundState, playing>>
    /\ UNCHANGED besideSounds

\* initialize() settles for the call; the initialization of the cache can
\* fail while the manager is not initialized.  Rejected: playSound rejects.  Otherwise
\* an unknown key throws, a full _activeSounds returns null, and else
\* _createAudioElement is entered and awaits the cache and the fetch.
PlayInitialized(c, ok) ==
    /\ playCalls[c].pc = "initialize"
    /\ ok \/ ~soundsInitialized
    /\ soundsInitialized' = (soundsInitialized \/ ok)
    /\ playCalls' = [playCalls EXCEPT ![c] =
          IF ~ok \/ playCalls[c].key \notin soundEffects
          THEN [@ EXCEPT !.pc = "done", !.result = "thrown"]
          ELSE IF Cardinality(DOMAIN activeSounds) >= MaxConcurrentSounds
          THEN [@ EXCEPT !.pc = "done", !.result = "null"]
          ELSE [@ EXCEPT !.pc = "create"]]
    /\ UNCHANGED <<soundEffects, activeSounds, soundState, playing>>
    /\ UNCHANGED besideSounds

\* _loadAndCacheSound settles.  With an element, its listeners are added and
\* play() is called; a failed fetch makes playSound set the state to error
\* and throw.
SoundLoaded(c, ok) ==
    /\ playCalls[c].pc = "create"
    /\ IF ok
       THEN /\ playCalls' = [playCalls EXCEPT ![c].pc = "play"]
            /\ UNCHANGED soundState
       ELSE /\ playCalls' = [playCalls EXCEPT ![c].pc = "done", ![c].result = "thrown"]
            /\ soundState' = UpdateSoundState([soundState EXCEPT !.state = "error"],
                                              soundEffects, activeSounds)
    /\ UNCHANGED <<soundsInitialized, soundEffects, activeSounds, playing>>
    /\ UNCHANGED besideSounds

\* play() settles.  Resolved: the element plays and playSound puts it in
\* _activeSounds under the key and the time, and returns it.  Rejected:
\* playSound sets the state to error and throws.
SoundPlayDone(c, ok) ==
    /\ playCalls[c].pc = "play"
    /\ IF ok
       THEN /\ playing' = playing \cup {c}
            /\ activeSounds' = MapPut(activeSounds, SoundKeyOf(playCalls[c].key, now), c)
            /\ soundState' = UpdateSoundState(soundState, soundEffects, activeSounds')
            /\ playCalls' = [playCalls EXCEPT ![c].pc = "done", ![c].result = "element"]
       ELSE /\ playCalls' = [playCalls EXCEPT ![c].pc = "done", ![c].result = "thrown"]
            /\ soundState' = UpdateSoundState([soundState EXCEPT !.state = "error"],
                                              soundEffects, activeSounds)
            /\ UNCHANGED <<activeSounds, playing>>
    /\ UNCHANGED <<soundsInitialized, soundEffects>>
    /\ UNCHANGED besideSounds

\* The element of the call plays to its end: _handleSoundEnded removes the
\* entry that holds the element, if there is one.
SoundEnded(c) ==
    /\ c \in playing
    /\ playing' = playing \ {c}
    /\ activeSounds' = [k \in {j \in DOMAIN activeSounds : activeSounds[j] # c} |->
                           activeSounds[k]]
    /\ soundState' = IF activeSounds' = activeSounds THEN soundState
                     ELSE UpdateSoundState(soundState, soundEffects, activeSounds')
    /\ UNCHANGED <<soundsInitialized, soundEffects, playCalls>>
    /\ UNCHANGED besideSounds

\* The entries of _activeSounds stopSound(key) picks.
SoundEntries(key) == {k \in DOMAIN activeSounds : StartsWith(k, key)}

\* stopSound(key): every entry picked is paused and deleted.
StopSound(key) ==
    /\ playing' = playing \ {activeSounds[k] : k \in SoundEntries(key)}
    /\ activeSounds' = [k \in DOMAIN activeSounds \ SoundEntries(key) |-> activeSounds[k]]
    /\ soundState' = UpdateSoundState(soundState, soundEffects, activeSounds')
    /\ UNCHANGED <<soundsInitialized, soundEffects, playCalls>>
    /\ UNCHANGED besideSounds

\* ----------------------------------------------------- AudioContextManager

\* An ensureUnlocked call not made yet.
\*   pc       "none", "resume" (awaiting context.resume()), "play" (in
\*            _unlockIOSAudio, awaiting play() of the silent element), "buffer"
\*            (in _unlockIOSAudio, awaiting _playSilentBuffer), "done"
\*   context  the AudioContext getContext() gave it
\*   handler  it was made by the auto-unlock handler
\*   result   "none", "true", "false"
NoUnlockCall == [pc |-> "none", context |-> 0, handler |-> FALSE, result |-> "none"]

\* The history: elements created, play() failures of the silent element,
\* whether ensureUnlocked was called while dispose() awaited close(), and
\* whether dispose() has resolved with no ensureUnlocked called since it began.
NoUnlockHist ==
    [created |-> 0, playFailed |-> 0, calledWhileClosing |-> FALSE,
     quietSinceDispose |-> FALSE]

\* The fields as the constructor and as dispose() set them.
LockedFlags ==
    [isLocked |-> TRUE, autoUnlockRegistered |-> FALSE, iosAudioUnlocked |-> FALSE,
     unlockInProgress |-> FALSE, hasPlayedRealAudio |-> FALSE]

\* The manager after its constructor on platform p, with the autoUnlock
\* option or without.
ContextStart(p, autoUnlock) ==
    /\ platform = p
    /\ contexts = [g \in 1..MaxContexts |-> "none"]
    /\ audioContext = 0
    /\ unlockFlags = [LockedFlags EXCEPT !.autoUnlockRegistered = autoUnlock]
    /\ silentAudioElement = ""
    /\ silentInDocument = {}
    /\ unlockCalls = [c \in UnlockCalls |-> NoUnlockCall]
    /\ disposeCall = "none"
    /\ unlockHist = NoUnlockHist

\* The index of the context getContext() returns: the current one, or a new one.
GetContext == IF audioContext # 0 THEN audioContext
              ELSE 1 + Cardinality({g \in 1..MaxContexts : contexts[g] # "none"})

\* The end of ensureUnlocked after the unlock: _isLocked follows the state of
\* the context; a handler's call that unlocked removes the handlers.
UnlockSettled(flags, call) ==
    LET locked == contexts'[call.context] # "running"
    IN  [flags EXCEPT !.isLocked = locked,
                      !.autoUnlockRegistered = IF call.handler /\ ~locked THEN FALSE ELSE @]

\* ensureUnlocked(), by a caller or by the auto-unlock handler on a gesture.
\* A running context: it returns true.  Otherwise it awaits resume().
EnsureUnlocked(c, byHandler, created) ==
    /\ unlockCalls[c].pc = "none"
    /\ byHandler => unlockFlags.autoUnlockRegistered
    /\ GetContext <= MaxContexts
    /\ audioContext' = GetContext
    /\ contexts' = IF audioContext # 0 THEN contexts
                   ELSE [contexts EXCEPT ![GetContext] = created]
    /\ LET call == [NoUnlockCall EXCEPT !.context = GetContext, !.handler = byHandler]
       IN  IF contexts'[GetContext] = "running"
           THEN /\ unlockCalls' = [unlockCalls EXCEPT ![c] =
                                      [call EXCEPT !.pc = "done", !.result = "true"]]
                /\ unlockFlags' = [unlockFlags EXCEPT
                       !.isLocked = FALSE,
                       !.autoUnlockRegistered = IF byHandler THEN FALSE ELSE @]
           ELSE /\ unlockCalls' = [unlockCalls EXCEPT ![c] = [call EXCEPT !.pc = "resume"]]
                /\ unlockFlags' = unlockFlags
    /\ unlockHist' = [unlockHist EXCEPT
          !.quietSinceDispose = FALSE,
          !.calledWhileClosing = @ \/ disposeCall = "close"]
    /\ UNCHANGED <<platform, silentAudioElement, silentInDocument, disposeCall>>
    /\ UNCHANGED besideContext

\* The test without _unlockInProgress.
SkipsUnlockOnceUnlocked(flags) == flags.iosAudioUnlocked

\* The test at the top of _unlockIOSAudio.
SkipsUnlock(flags) == flags.iosAudioUnlocked \/ flags.unlockInProgress

\* resume() settles: it resolves with the context running unless the context
\* is closed.  Rejected: ensureUnlocked returns false.  Resolved on iOS or
\* Safari: _unlockIOSAudio returns at once, or sets _unlockInProgress, creates
\* the silent element if there is none, attaches it and awaits its play().
ResumeDone(c, ok) ==
    /\ unlockCalls[c].pc = "resume"
    /\ ok => contexts[unlockCalls[c].context] \in {"suspended", "running"}
    /\ LET call == unlockCalls[c]
       IN  IF ~ok
           THEN /\ unlockCalls' = [unlockCalls EXCEPT ![c].pc = "done", ![c].result = "false"]
                /\ UNCHANGED <<contexts, unlockFlags, silentAudioElement,
                               silentInDocument, unlockHist>>
           ELSE /\ contexts' = [contexts EXCEPT ![call.context] = "running"]
                /\ IF platform \notin {"ios", "safari"} \/ SkipsUnlock(unlockFlags)
                   THEN /\ unlockFlags' = UnlockSettled(unlockFlags, call)
                        /\ unlockCalls' = [unlockCalls EXCEPT ![c].pc = "done",
                                                              ![c].result = "true"]
                        /\ UNCHANGED <<silentAudioElement, silentInDocument, unlockHist>>
                   ELSE /\ unlockFlags' = [unlockFlags EXCEPT !.unlockInProgress = TRUE]
                        /\ IF silentAudioElement = ""
                           THEN /\ silentAudioElement' = c
                                /\ silentInDocument' = silentInDocument \cup {c}
                                /\ unlockHist' = [unlockHist EXCEPT !.created = @ + 1]
                                /\ unlockCalls' = [unlockCalls EXCEPT ![c].pc = "play"]
                           ELSE /\ unlockCalls' = [unlockCalls EXCEPT ![c].pc = "buffer"]
                                /\ UNCHANGED <<silentAudioElement, silentInDocument,
                                               unlockHist>>
    /\ UNCHANGED <<platform, audioContext, disposeCall>>
    /\ UNCHANGED besideContext

\* play() of the silent element settles; it rejects once the element was
\* paused and emptied.  Resolved: _iosAudioUnlocked is set.  Rejected: the
\* element is removed and _silentAudioElement set to null.  Then
\* _playSilentBuffer is awaited.
SilentPlayDone(c, ok) ==
    /\ unlockCalls[c].pc = "play"
    /\ ok => c \in silentInDocument
    /\ IF ok
       THEN /\ unlockFlags' = [unlockFlags EXCEPT !.iosAudioUnlocked = TRUE]
            /\ UNCHANGED <<silentAudioElement, silentInDocument, unlockHist>>
       ELSE /\ silentInDocument' = silentInDocument \ {c}
            /\ silentAudioElement' = ""
            /\ unlockHist' = [unlockHist EXCEPT !.playFailed = @ + 1]
            /\ UNCHANGED unlockFlags
    /\ unlockCalls' = [unlockCalls EXCEPT ![c].pc = "buffer"]
    /\ UNCHANGED <<platform, contexts, audioContext, disposeCall>>
    /\ UNCHANGED besideContext

\* The silent buffer ends: _unlockInProgress is cleared and ensureUnlocked
\* returns whether the context is running.
SilentBufferDone(c) ==
    /\ unlockCalls[c].pc = "buffer"
    /\ contexts' = contexts
    /\ unlockFlags' = UnlockSettled([unlockFlags EXCEPT !.unlockInProgress = FALSE],
                                    unlockCalls[c])
    /\ unlockCalls' = [unlockCalls EXCEPT
          ![c].pc = "done",
          ![c].result = IF contexts[unlockCalls[c].context] = "running"
                        THEN "true" ELSE "false"]
    /\ UNCHANGED <<platform, audioContext, silentAudioElement, silentInDocument,
                   disposeCall, unlockHist>>
    /\ UNCHANGED besideContext

\* stopSilentAudioLoop()
StopSilentAudioLoop ==
    /\ silentAudioElement # "" /\ unlockFlags.iosAudioUnlocked
    /\ ~unlockFlags.hasPlayedRealAudio
    /\ unlockFlags' = [unlockFlags EXCEPT !.hasPlayedRealAudio = TRUE]
    /\ UNCHANGED <<platform, contexts, audioContext, silentAudioElement,
                   silentInDocument, unlockCalls, disposeCall, unlockHist>>
    /\ UNCHANGED besideContext

\* dispose(): the handlers and the silent element are removed; a context that
\* is not closed is closed and dispose() awaits that; otherwise it ends.
DisposeContext ==
    /\ disposeCall = "none"
    /\ silentAudioElement' = ""
    /\ silentInDocument' = silentInDocument \ {silentAudioElement}
    /\ IF audioContext # 0 /\ contexts[audioContext] # "closed"
       THEN /\ disposeCall' = "close"
            /\ unlockFlags' = [unlockFlags EXCEPT !.autoUnlockRegistered = FALSE]
            /\ UNCHANGED <<audioContext, unlockHist>>
       ELSE /\ disposeCall' = "done"
            /\ audioContext' = 0
            /\ unlockFlags' = LockedFlags
            /\ unlockHist' = [unlockHist EXCEPT !.quietSinceDispose = TRUE]
    /\ UNCHANGED <<platform, contexts, unlockCalls>>
    /\ UNCHANGED besideContext

\* close() settles: the context is closed, _audioContext is set to null and
\* the flags are reset.
CloseDone ==
    /\ disposeCall = "close"
    /\ disposeCall' = "done"
    /\ contexts' = [contexts EXCEPT ![audioContext] = "closed"]
    /\ audioContext' = 0
    /\ unlockFlags' = LockedFlags
    /\ unlockHist' = [unlockHist EXCEPT
          !.quietSinceDispose = ~unlockHist.calledWhileClosing]
    /\ UNCHANGED <<platform, silentAudioElement, silentInDocument, unlockCalls>>
    /\ UNCHANGED besideContext

\* ----------------------------------------------------------- AudioRecorder

\* A startRecording call not made yet.
\*   pc     "none", "initialize" (awaiting initialize()), "permission"
\*          (awaiting requestPermission), "create" (awaiting
\*          _createMediaRecorder), "returned" (with its RecordingResult),
\*          "thrown"
\*   onStarted, onCompleted   the promises of its RecordingResult: "none"
\*          before they are created, "pending", "resolved", "rejected"
NoRecording == [pc |-> "none", onStarted |-> "none", onCompleted |-> "none"]

\* No stopRecording call.
\*   pc         "none", "stop" (awaiting _stopMediaRecorderAndWait), "done"
\*   recording  the recordingId it read from the state
\*   result     "none", "data" (resolved with the RecordingData) or "thrown"
\*   chunks     the chunks in the blob of the RecordingData
NoStop == [pc |-> "none", recording |-> "", result |-> "none", chunks |-> 0]

\* The recorder after its constructor.
RecorderInit ==
    /\ recorderInitialized = FALSE
    /\ recorderState = [state |-> "idle", recordingId |-> ""]
    /\ mediaRecorder = "null"
    /\ recordedChunks = 0
    /\ recordings = [k \in RecordCalls |-> NoRecording]
    /\ stopCall = NoStop

\* _setState(state, recordingId)
SetRecorderState(s, id) == [state |-> s, recordingId |-> id]

\* The catch block of startRecording: the state is error and both promises
\* are rejected; the RecordingResult is returned all the same.
StartFailed(k) ==
    /\ recorderState' = SetRecorderState("error", k)
    /\ recordings' = [recordings EXCEPT
          ![k].pc = "returned",
          ![k].onStarted = SettleOnce(@, "rejected"),
          ![k].onCompleted = SettleOnce(@, "rejected")]

\* startRecording(id) is called: it awaits initialize().
StartRecording(k) ==
    /\ recordings[k].pc = "none"
    /\ recordings' = [recordings EXCEPT ![k].pc = "initialize"]
    /\ UNCHANGED <<recorderInitialized, recorderState, mediaRecorder, recordedChunks,
                   stopCall>>
    /\ UNCHANGED besideRecorder

\* initialize() settles; it can fail while the recorder is not initialized.
\* Rejected, or a recording under way: startRecording throws.  Otherwise the
\* promises are created, the state is requesting-permission and the
\* permission is awaited.
RecorderInitialized(k, ok) ==
    /\ recordings[k].pc = "initialize"
    /\ ok \/ ~recorderInitialized
    /\ recorderInitialized' = (recorderInitialized \/ ok)
    /\ IF ~ok \/ recorderState.state = "recording"
       THEN /\ recordings' = [recordings EXCEPT ![k].pc = "thrown"]
            /\ UNCHANGED recorderState
       ELSE /\ recordings' = [recordings EXCEPT ![k] =
                   [pc |-> "permission", onStarted |-> "pending", onCompleted |-> "pending"]]
            /\ recorderState' = SetRecorderState("requesting-permission", k)
    /\ UNCHANGED <<mediaRecorder, recordedChunks, stopCall>>
    /\ UNCHANGED besideRecorder

\* requestPermission settles.  Denied: the catch block.  Granted:
\* _createMediaRecorder is awaited.
PermissionDone(k, granted) ==
    /\ recordings[k].pc = "permission"
    /\ IF granted
       THEN /\ recordings' = [recordings EXCEPT ![k].pc = "create"]
            /\ UNCHANGED recorderState
       ELSE StartFailed(k)
    /\ UNCHANGED <<recorderInitialized, mediaRecorder, recordedChunks, stopCall>>
    /\ UNCHANGED besideRecorder

\* _createMediaRecorder settles.  Created: the chunks are emptied, the
\* MediaRecorder is started, the state is recording and onStarted resolves.
\* Failed: the catch block.
MediaRecorderCreated(k, ok) ==
    /\ recordings[k].pc = "create"
    /\ IF ok
       THEN /\ mediaRecorder' = "recording"
            /\ recordedChunks' = 0
            /\ recorderState' = SetRecorderState("recording", k)
            /\ recordings' = [recordings EXCEPT
                  ![k].pc = "returned", ![k].onStarted = SettleOnce(@, "resolved")]
       ELSE /\ StartFailed(k)
            /\ UNCHANGED <<mediaRecorder, recordedChunks>>
    /\ UNCHANGED <<recorderInitialized, stopCall>>
    /\ UNCHANGED besideRecorder

\* ondataavailable with data: the chunk is pushed.
DataAvailable ==
    /\ mediaRecorder = "recording"
    /\ recordedChunks < MaxRecorded
    /\ recordedChunks' = recordedChunks + 1
    /\ UNCHANGED <<recorderInitialized, recorderState, mediaRecorder, recordings, stopCall>>
    /\ UNCHANGED besideRecorder

\* pauseRecording()
PauseRecording ==
    /\ recorderState.state = "recording" /\ mediaRecorder # "null"
    /\ mediaRecorder' = IF mediaRecorder = "recording" THEN "paused" ELSE mediaRecorder
    /\ recorderState' = SetRecorderState("paused", recorderState.recordingId)
    /\ UNCHANGED <<recorderInitialized, recordedChunks, recordings, stopCall>>
    /\ UNCHANGED besideRecorder

\* resumeRecording()
ResumeRecording ==
    /\ recorderState.state = "paused" /\ mediaRecorder # "null"
    /\ mediaRecorder' = IF mediaRecorder = "paused" THEN "recording" ELSE mediaRecorder
    /\ recorderState' = SetRecorderState("recording", recorderState.recordingId)
    /\ UNCHANGED <<recorderInitialized, recordedChunks, recordings, stopCall>>
    /\ UNCHANGED besideRecorder

\* What stopRecording does once the MediaRecorder has stopped:
\* _finalizeRecording makes the RecordingData of the chunks, the state is
\* completed, _cleanup drops the MediaRecorder and the chunks, and the data is
\* returned to the caller of stopRecording.
FinishStop(call) ==
    /\ stopCall' = [call EXCEPT !.pc = "done", !.result = "data",
                                 !.chunks = recordedChunks]
    /\ recorderState' = SetRecorderState("completed", call.recording)
    /\ mediaRecorder' = "null"

\* stopRecording(), by the caller, by stop() of a RecordingResult or by the
\* duration timer, while recording or paused: the state is processing and the
\* stop of the MediaRecorder is awaited, if it is not inactive.
StopRecording ==
    /\ stopCall.pc # "stop"
    /\ recorderState.state \in {"recording", "paused"}
    /\ LET call == [NoStop EXCEPT !.recording = recorderState.recordingId]
       IN  IF mediaRecorder \in {"recording", "paused"}
           THEN /\ stopCall' = [call EXCEPT !.pc = "stop"]
                /\ recorderState' = SetRecorderState("processing", call.recording)
                /\ mediaRecorder' = "inactive"
                /\ UNCHANGED recordedChunks
           ELSE /\ FinishStop(call)
                /\ recordedChunks' = 0
    /\ UNCHANGED <<recorderInitialized, recordings>>
    /\ UNCHANGED besideRecorder

\* _stopMediaRecorderAndWait settles: on the stop event, after the last data
\* (final chunks are pushed or not), or on an error event of the
\* MediaRecorder, which makes stopRecording set the state to error and throw.
StopDone(ok) ==
    /\ stopCall.pc = "stop"
    /\ IF ok
       THEN /\ FinishStop(stopCall)
            /\ recordedChunks' = 0
       ELSE /\ stopCall' = [stopCall EXCEPT !.pc = "done", !.result = "thrown"]
            /\ recorderState' = SetRecorderState("error", stopCall.recording)
            /\ UNCHANGED <<mediaRecorder, recordedChunks>>
    /\ UNCHANGED <<recorderInitialized, recordings>>
    /\ UNCHANGED besideRecorder

\* cancelRecording(): the MediaRecorder is stopped, the chunks are dropped,
\* the state is idle with no recordingId, then _cleanup.
CancelRecording ==
    /\ recorderState' = SetRecorderState("idle", "")
    /\ mediaRecorder' = "null"
    /\ recordedChunks' = 0
    /\ UNCHANGED <<recorderInitialized, recordings, stopCall>>
    /\ UNCHANGED besideRecorder

\* --------------------------------------------------------- PlaylistManager

\* No playTrack call.
\*   pc     "none", "initialize" (awaiting initialize()), "load" (awaiting
\*          streamFromUrl and onLoaded), "playing" (onEnded pending), "done"
\*          (its track ended) or "thrown"
\*   index  the index it was called with
\*   track  the track it found at the index
NoTrackCall == [pc |-> "none", index |-> -1, track |-> ""]

\* The manager after its constructor; currentTrack is "" for null.
PlaylistInit ==
    /\ playlistInitialized = FALSE
    /\ playlist = <<>>
    /\ currentIndex = -1
    /\ playMode = "sequential"
    /\ isShuffled = FALSE
    /\ shuffledIndices = <<>>
    /\ playlistState = [state |-> "idle", currentTrack |-> "", currentIndex |-> -1,
                        totalTracks |-> 0, playMode |-> "sequential",
                        isShuffled |-> FALSE, canPlay |-> FALSE, canPlayNext |-> FALSE,
                        canPlayPrevious |-> FALSE]
    /\ trackCalls = [c \in TrackCalls |-> NoTrackCall]

\* Array.prototype.indexOf and the element at a zero-based index.
IndexOf(arr, x) ==
    IF \E i \in 1..Len(arr) : arr[i] = x
    THEN (CHOOSE i \in 1..Len(arr) : arr[i] = x /\ \A j \in 1..(i - 1) : arr[j] # x) - 1
    ELSE -1

At(arr, i) == arr[i + 1]

\* playlist[index]: "undefined" outside the array.
TrackAt(pl, index) == IF index >= 0 /\ index < Len(pl) THEN At(pl, index) ELSE "undefined"

\* _getNextIndex
GetNextIndex(pl, cur, mode, shuffled, indices) ==
    IF Len(pl) = 0 THEN -1
    ELSE IF cur = -1 THEN 0
    ELSE IF shuffled
    THEN IF IndexOf(indices, cur) = -1 THEN 0
         ELSE IF IndexOf(indices, cur) + 1 < Len(indices)
         THEN At(indices, IndexOf(indices, cur) + 1)
         ELSE IF mode = "repeat" THEN At(indices, 0)
         ELSE -1
    ELSE IF cur + 1 < Len(pl) THEN cur + 1
         ELSE IF mode = "repeat" THEN 0
         ELSE -1

\* _getPreviousIndex
GetPreviousIndex(pl, cur, shuffled, indices) ==
    IF Len(pl) = 0 THEN -1
    ELSE IF cur = -1 THEN Len(pl) - 1
    ELSE IF shuffled
    THEN IF IndexOf(indices, cur) = -1 THEN Len(pl) - 1
         ELSE IF IndexOf(indices, cur) - 1 >= 0
         THEN At(indices, IndexOf(indices, cur) - 1)
         ELSE -1
    ELSE IF cur - 1 >= 0 THEN cur - 1
         ELSE -1

\* _canPlayNext and _canPlayPrevious
CanPlayNext(pl, cur, mode, shuffled, indices) ==
    IF Len(pl) = 0 THEN FALSE
    ELSE IF mode = "repeatOne" THEN TRUE
    ELSE GetNextIndex(pl, cur, mode, shuffled, indices) # -1

CanPlayPrevious(pl, cur, shuffled, indices) ==
    IF Len(pl) = 0 THEN FALSE
    ELSE GetPreviousIndex(pl, cur, shuffled, indices) # -1

\* _updateState, with the fields as they are after the step.
UpdatePlaylistState(st) ==
    [st EXCEPT
        !.totalTracks = Len(playlist'),
        !.canPlay = Len(playlist') > 0,
        !.canPlayNext = CanPlayNext(playlist', currentIndex', playMode', isShuffled',
                                    shuffledIndices'),
        !.canPlayPrevious = CanPlayPrevious(playlist', currentIndex', isShuffled',
                                            shuffledIndices')]

\* _setState(state, currentTrack)
SetPlaylistState(st, s, track) ==
    UpdatePlaylistState([st EXCEPT !.state = s, !.currentTrack = track,
                                   !.currentIndex = currentIndex'])

\* loadPlaylist(items)
LoadPlaylist(items) ==
    /\ playlist' = items
    /\ currentIndex' = -1
    /\ shuffledIndices' = <<>>
    /\ UNCHANGED <<playlistInitialized, playMode, isShuffled, trackCalls>>
    /\ playlistState' = UpdatePlaylistState(playlistState)
    /\ UNCHANGED besidePlaylist

\* addTrack(item, index); index is -1 for undefined.
AddTrack(track, index) ==
    /\ Len(playlist) < MaxTracks
    /\ playlist' = IF index >= 0 /\ index <= Len(playlist)
                   THEN SubSeq(playlist, 1, index) \o <<track>>
                            \o SubSeq(playlist, index + 1, Len(playlist))
                   ELSE Append(playlist, track)
    /\ UNCHANGED <<playlistInitialized, currentIndex, playMode, isShuffled,
                   shuffledIndices, trackCalls>>
    /\ playlistState' = UpdatePlaylistState(playlistState)
    /\ UNCHANGED besidePlaylist

\* removeTrack(index) with an index of the playlist.
RemoveTrack(index) ==
    /\ index >= 0 /\ index < Len(playlist)
    /\ playlist' = SubSeq(playlist, 1, index) \o SubSeq(playlist, index + 2, Len(playlist))
    /\ currentIndex' = IF currentIndex = index THEN -1
                       ELSE IF currentIndex > index THEN currentIndex - 1
                       ELSE currentIndex
    /\ UNCHANGED <<playlistInitialized, playMode, isShuffled, shuffledIndices, trackCalls>>
    /\ playlistState' = UpdatePlaylistState(
          IF currentIndex = index THEN [playlistState EXCEPT !.currentTrack = ""]
          ELSE playlistState)
    /\ UNCHANGED besidePlaylist

\* playTrack(index) is entered: an index outside the playlist throws, any
\* other awaits initialize().
EnterPlayTrack(c, index) ==
    trackCalls' = [trackCalls EXCEPT ![c] =
        IF index < 0 \/ index >= Len(playlist)
        THEN [NoTrackCall EXCEPT !.pc = "thrown", !.index = index]
        ELSE [NoTrackCall EXCEPT !.pc = "initialize", !.index = index]]

\* A call of playTrack, next or previous can be made.
Free(c) == trackCalls[c].pc \in {"none", "done", "thrown"}

\* playTrack(index), called by the user.
PlayTrack(c, index) ==
    /\ Free(c)
    /\ EnterPlayTrack(c, index)
    /\ UNCHANGED <<playlistInitialized, playlist, currentIndex, playMode, isShuffled,
                   shuffledIndices, playlistState>>
    /\ UNCHANGED besidePlaylist

\* initialize() settles; it can fail while the manager is not initialized.
\* Resolved: the index becomes the current one and the state is loading with
\* the track at the index; with no track there the stream throws at once and
\* the state is error, else the stream is awaited.
PlayTrackBegun(c, ok) ==
    /\ trackCalls[c].pc = "initialize"
    /\ ok \/ ~playlistInitialized
    /\ playlistInitialized' = (playlistInitialized \/ ok)
    /\ UNCHANGED <<playlist, playMode, isShuffled, shuffledIndices>>
    /\ IF ~ok
       THEN /\ trackCalls' = [trackCalls EXCEPT ![c].pc = "thrown"]
            /\ UNCHANGED <<currentIndex, playlistState>>
       ELSE /\ currentIndex' = trackCalls[c].index
            /\ LET track == TrackAt(playlist, trackCalls[c].index)
               IN  IF track = "undefined"
                   THEN /\ playlistState' = SetPlaylistState(playlistState, "error", track)
                        /\ trackCalls' = [trackCalls EXCEPT ![c].pc = "thrown",
                                                            ![c].track = track]
                   ELSE /\ playlistState' = SetPlaylistState(playlistState, "loading", track)
                        /\ trackCalls' = [trackCalls EXCEPT ![c].pc = "load",
                                                            ![c].track = track]
    /\ UNCHANGED besidePlaylist

\* streamFromUrl and onLoaded settle: the state is playing with the track the
\* call read, or error.
PlayTrackLoaded(c, ok) ==
    /\ trackCalls[c].pc = "load"
    /\ UNCHANGED <<playlistInitialized, playlist, currentIndex, playMode, isShuffled,
                   shuffledIndices>>
    /\ playlistState' = SetPlaylistState(playlistState,
                            IF ok THEN "playing" ELSE "error", trackCalls[c].track)
    /\ trackCalls' = [trackCalls EXCEPT ![c].pc = IF ok THEN "playing" ELSE "thrown"]
    /\ UNCHANGED besidePlaylist

\* next(): nothing when _canPlayNext() is false, else playTrack of the next
\* index.
NextTrack(c) ==
    /\ Free(c)
    /\ IF CanPlayNext(playlist, currentIndex, playMode, isShuffled, shuffledIndices)
       THEN EnterPlayTrack(c, GetNextIndex(playlist, currentIndex, playMode, isShuffled,
                                           shuffledIndices))
       ELSE UNCHANGED trackCalls
    /\ UNCHANGED <<playlistInitialized, playlist, currentIndex, playMode, isShuffled,
                   shuffledIndices, playlistState>>
    /\ UNCHANGED besidePlaylist

\* previous()
PreviousTrack(c) ==
    /\ Free(c)
    /\ IF CanPlayPrevious(playlist, currentIndex, isShuffled, shuffledIndices)
       THEN EnterPlayTrack(c, GetPreviousIndex(playlist, currentIndex, isShuffled,
                                               shuffledIndices))
       ELSE UNCHANGED trackCalls
    /\ UNCHANGED <<playlistInitialized, playlist, currentIndex, playMode, isShuffled,
                   shuffledIndices, playlistState>>
    /\ UNCHANGED besidePlaylist

\* _handleTrackEnd, its playTrack made as call c: the state is ended; then
\* repeatOne plays the current index again, a playlist that can play next
\* goes on with next(), and any other becomes idle with no current track.
HandleTrackEnd(c) ==
    /\ UNCHANGED <<playlistInitialized, playlist, currentIndex, playMode, isShuffled,
                   shuffledIndices>>
    /\ IF playMode = "repeatOne"
       THEN /\ EnterPlayTrack(c, currentIndex)
            /\ playlistState' = SetPlaylistState(playlistState, "ended",
                                                 playlistState.currentTrack)
       ELSE IF CanPlayNext(playlist, currentIndex, playMode, isShuffled, shuffledIndices)
       THEN /\ EnterPlayTrack(c, GetNextIndex(playlist, currentIndex, playMode,
                                              isShuffled, shuffledIndices))
            /\ playlistState' = SetPlaylistState(playlistState, "ended",
                                                 playlistState.currentTrack)
       ELSE /\ trackCalls' = [trackCalls EXCEPT ![c].pc = "done"]
            /\ playlistState' = SetPlaylistState(playlistState, "idle", "")
    /\ UNCHANGED besidePlaylist

\* onEnded of the call's stream resolves and its then-callback runs
\* _handleTrackEnd.
TrackEnded(c) ==
    /\ trackCalls[c].pc = "playing"
    /\ HandleTrackEnd(c)

\* setPlayMode(mode)
SetPlayMode(mode) ==
    /\ playMode' = mode
    /\ UNCHANGED <<playlistInitialized, playlist, currentIndex, isShuffled,
                   shuffledIndices, trackCalls>>
    /\ playlistState' = UpdatePlaylistState([playlistState EXCEPT !.playMode = mode])
    /\ UNCHANGED besidePlaylist

\* streamFromUrl and onLoaded settle for a track that was not in the cache:
\* the state is playing; _streamForPlayback adds no listener for the end of
\* the element, so onEnded stays pending ("streaming").
PlayTrackStreamed(c) ==
    /\ trackCalls[c].pc = "load"
    /\ UNCHANGED <<playlistInitialized, playlist, currentIndex, playMode, isShuffled,
                   shuffledIndices>>
    /\ playlistState' = SetPlaylistState(playlistState, "playing", trackCalls[c].track)
    /\ trackCalls' = [trackCalls EXCEPT ![c].pc = "streaming"]
    /\ UNCHANGED besidePlaylist

\* The audio element ends while the stream of call c plays.  Its listeners
\* run in the order they were added; the first is the streamer's, which sets
\* the streamer's state to ended, and the manager's stateChange listener runs
\* _handleTrackEnd, its playTrack made as call d.  The listener that resolves
\* onEnded, added for a stream played from the cache, is still to run
\* ("ended").
StateChangeEnded(c, d) ==
    /\ trackCalls[c].pc \in {"playing", "streaming"}
    /\ d # c /\ Free(d)
    /\ UNCHANGED <<playlistInitialized, playlist, currentIndex, playMode, isShuffled,
                   shuffledIndices>>
    /\ LET over == IF trackCalls[c].pc = "playing" THEN "ended" ELSE "done"
           entered(index) ==
               IF index < 0 \/ index >= Len(playlist)
               THEN [NoTrackCall EXCEPT !.pc = "thrown", !.index = index]
               ELSE [NoTrackCall EXCEPT !.pc = "initialize", !.index = index]
       IN  IF playMode = "repeatOne"
           THEN /\ trackCalls' = [trackCalls EXCEPT ![c].pc = over,
                                                    ![d] = entered(currentIndex)]
                /\ playlistState' = SetPlaylistState(playlistState, "ended",
                                                     playlistState.currentTrack)
           ELSE IF CanPlayNext(playlist, currentIndex, playMode, isShuffled,
                               shuffledIndices)
           THEN /\ trackCalls' = [trackCalls EXCEPT
                      ![c].pc = over,
                      ![d] = entered(GetNextIndex(playlist, currentIndex, playMode,
                                                  isShuffled, shuffledIndices))]
                /\ playlistState' = SetPlaylistState(playlistState, "ended",
                                                     playlistState.currentTrack)
           ELSE /\ trackCalls' = [trackCalls EXCEPT ![c].pc = over]
                /\ playlistState' = SetPlaylistState(playlistState, "idle", "")
    /\ UNCHANGED besidePlaylist

\* The listener of _setupPlaybackPromises runs for the same end of the
\* element, after the playTrack of the first listener has gone on past its
\* await of initialize(): onEnded resolves and its then-callback runs
\* _handleTrackEnd.
OnEndedResolved(c) ==
    /\ trackCalls[c].pc = "ended"
    /\ \A d \in TrackCalls : trackCalls[d].pc # "initialize"
    /\ HandleTrackEnd(c)

\* pause()
PausePlaylist ==
    /\ UNCHANGED <<playlistInitialized, playlist, currentIndex, playMode, isShuffled,
                   shuffledIndices, trackCalls>>
    /\ playlistState' = SetPlaylistState(playlistState, "paused",
                                         playlistState.currentTrack)
    /\ UNCHANGED besidePlaylist

\* clearPlaylist()
ClearPlaylist ==
    /\ playlist' = <<>>
    /\ currentIndex' = -1
    /\ shuffledIndices' = <<>>
    /\ UNCHANGED <<playlistInitialized, playMode, isShuffled, trackCalls>>
    /\ playlistState' = SetPlaylistState(playlistState, "idle", "")
    /\ UNCHANGED besidePlaylist

\* dispose(): the streamer is disposed, the playlist and the indices are
\* emptied; _state is left as it is.
DisposePlaylist ==
    /\ playlist' = <<>>
    /\ currentIndex' = -1
    /\ shuffledIndices' = <<>>
    /\ playlistInitialized' = FALSE
    /\ UNCHANGED <<playMode, isShuffled, playlistState, trackCalls>>
    /\ UNCHANGED besidePlaylist

\* The other classes after their constructors.
ManagersInit ==
    /\ sniffed = NoSniff
    /\ creation = NoCreation
    /\ SoundsInit
    /\ ContextStart("desktop", FALSE)
    /\ RecorderInit
    /\ PlaylistInit

\* A new streamer with a new cache over an empty store.
Init == CacheInit /\ StreamerInit /\ ManagersInit

\* initialize(), set() and get() called by a client of the cache; the streamer
\* calls them in steps of its own.
ClientInitialize(c) == Initialize(c) /\ UNCHANGED streamerVars

ClientSet(c, id, chunks, mimeType, tags) ==
    Set(c, id, chunks, mimeType, tags) /\ UNCHANGED streamerVars

ClientGet(c, id) == Get(c, id) /\ UNCHANGED streamerVars

\* What SpecCache passes to cleanup.
CacheCleanups ==
    {MinAccessCount(1), MaxEntries(1)}

\* A client uses every method of the cache, one call after the other.  The
\* database opens and loads; every later request to the store may fail.  The
\* clock stands still.
CacheNext ==
    \/ \E c \in Clients :
        \/ ClientInitialize(c)
        \/ \E id \in Ids, chunks \in Payloads, m \in MimeTypes :
              ClientSet(c, id, chunks, m, {})
        \/ \E id \in Ids : ClientGet(c, id) \/ Has(c, id) \/ Delete(c, id)
        \/ Clear(c)
        \/ \E opts \in CacheCleanups : Cleanup(c, opts)
        \/ GetStats(c)
        \/ Close(c)
    \/ InitOpenDone(TRUE)
    \/ InitLoadDone(TRUE)
    \/ InitEstimateDone
    \/ \E c \in Clients, ok \in BOOLEAN :
        \/ PutDone(c, ok)
        \/ GetEntryDone(c, ok)
        \/ DeleteEntryDone(c, ok)
        \/ ClearStoreDone(c, ok)
        \/ CleanupLoaded(c, ok)
        \/ CleanupReloaded(c, ok)
        \/ GetStatsDone(c, ok)

SpecCache == Init /\ [][CacheNext]_vars

\* A client initializes, sets, gets, deletes, clears and closes, one call
\* after the other.  Opening the database may fail and so may loading its
\* entries; every later request to the store succeeds.
FaultNext ==
    \/ \E c \in Clients :
        \/ ClientInitialize(c)
        \/ \E id \in Ids : ClientSet(c, id, ChunksAB, "audio/mpeg", {})
        \/ \E id \in Ids : ClientGet(c, id) \/ Delete(c, id)
        \/ Clear(c)
        \/ Close(c)
    \/ \E ok \in BOOLEAN : InitOpenDone(ok) \/ InitLoadDone(ok)
    \/ InitEstimateDone
    \/ \E c \in Clients :
        \/ PutDone(c, TRUE)
        \/ GetEntryDone(c, TRUE)
        \/ DeleteEntryDone(c, TRUE)
        \/ ClearStoreDone(c, TRUE)

SpecFault == Init /\ [][FaultNext]_vars

\* A client sets, reads and cleans up entries while the clock advances; no
\* request fails.
CleanupSpecNext ==
    \/ Tick
    \/ \E c \in Clients :
        \/ ClientInitialize(c)
        \/ \E id \in Ids, tags \in TagSets : ClientSet(c, id, ChunksAB, "audio/mpeg", tags)
        \/ \E id \in Ids : ClientGet(c, id)
        \/ \E opts \in CleanupOptions : Cleanup(c, opts)
    \/ InitOpenDone(TRUE)
    \/ InitLoadDone(TRUE)
    \/ InitEstimateDone
    \/ \E c \in Clients :
        \/ PutDone(c, TRUE)
        \/ GetEntryDone(c, TRUE)
        \/ DeleteEntryDone(c, TRUE)
        \/ CleanupLoaded(c, TRUE)
        \/ CleanupReloaded(c, TRUE)

SpecCleanup == Init /\ [][CleanupSpecNext]_vars

\* --------------------------------------- AudioStreamer: the audio element

\* The requests of a set, in the order they were made (the order in which
\* their listeners were added).
RECURSIVE InOrder(_, _)
InOrder(order, set) ==
    IF order = <<>> THEN <<>>
    ELSE (IF Head(order) \in set THEN <<Head(order)>> ELSE <<>>) \o InOrder(Tail(order), set)

RECURSIVE EventsFor(_, _)
EventsFor(type, rs) ==
    IF rs = <<>> THEN <<>>
    ELSE << <<type, requests[Head(rs)].id>> >> \o EventsFor(type, Tail(rs))

\* The application calls play() on its audio element.
Play ==
    /\ Uninterrupted
    /\ audioElement.src.kind # "none" /\ audioElement.paused /\ ~audioElement.ended
    /\ audioElement' = PlayElement(audioElement)
    /\ emitted' = <<>>
    /\ UNCHANGED <<now, cacheVars, isInitialized, activeStreams, aborted, state, requests>>
    /\ UNCHANGED <<sinkVars, listenerVars, managerVars>>

\* The element fires canplay: the constructor's listener emits canPlay for the
\* current id; the once-listeners of the WAV path call play().
AudioCanPlay ==
    /\ Uninterrupted
    /\ audioElement.src.kind # "none"
    /\ audioElement.src.kind = "mediaSource" => audioElement.buffered > 0
    /\ state' = [state EXCEPT !.canPlay = TRUE]
    /\ emitted' = << <<"canPlay", state.currentAudioId>> >>
    /\ audioElement' =
          IF audioElement.wavCanPlay # {}
          THEN [PlayElement(audioElement) EXCEPT !.wavCanPlay = {}]
          ELSE audioElement
    /\ UNCHANGED <<now, cacheVars, isInitialized, activeStreams, aborted, requests>>
    /\ UNCHANGED <<sinkVars, listenerVars, managerVars>>

\* The element fires play: the once-listeners of the WAV path set the state to
\* playing, each for its own id.
AudioPlay ==
    /\ Uninterrupted
    /\ audioElement.playEvent
    /\ LET rs == InOrder(RequestOrder, audioElement.wavPlay)
       IN  /\ state' = IF rs = <<>> THEN state
                       ELSE SetState(state, "playing", requests[rs[Len(rs)]].id)
           /\ emitted' = EventsFor("stateChange", rs)
    /\ audioElement' = [audioElement EXCEPT !.playEvent = FALSE, !.wavPlay = {}]
    /\ UNCHANGED <<now, cacheVars, isInitialized, activeStreams, aborted, requests>>
    /\ UNCHANGED <<sinkVars, listenerVars, managerVars>>

\* The element fires progress after loading d more seconds of a URL or blob (a
\* MediaSource grows by its appends); seconds is the element's duration, 0 for
\* NaN.  The constructor's listener updates and emits bufferProgress for the
\* current id, the listeners of the WAV path emit it for their own ids.
AudioProgress(d, seconds) ==
    /\ Uninterrupted
    /\ audioElement.src.kind # "none"
    /\ audioElement.src.kind = "mediaSource" => d = 0
    /\ audioElement.buffered + d <= MaxLoaded \/ d = 0
    /\ LET end == audioElement.buffered + d
           duration == IF seconds = 0 THEN end ELSE seconds
           progress == IF end >= duration THEN <<1, 1>> ELSE <<end, duration>>
       IN  /\ audioElement' = [audioElement EXCEPT !.buffered = end]
           /\ state' = IF end > 0 THEN [state EXCEPT !.bufferProgress = progress] ELSE state
           /\ emitted' =
                 IF end > 0
                 THEN << <<"bufferProgress", state.currentAudioId>> >>
                      \o EventsFor("bufferProgress",
                                   InOrder(RequestOrder, audioElement.wavProgress))
                 ELSE <<>>
    /\ UNCHANGED <<now, cacheVars, isInitialized, activeStreams, aborted, requests>>
    /\ UNCHANGED <<sinkVars, listenerVars, managerVars>>

\* Playback reaches the end of the source (of a MediaSource: once its stream
\* was ended) and the element fires ended: the constructor's listener sets the
\* state and emits playEnd for the current id; the listeners of
\* _setupPlaybackPromises resolve onEnded.
AudioEnded ==
    /\ Uninterrupted
    /\ audioElement.src.kind # "none" /\ ~audioElement.paused /\ ~audioElement.ended
    /\ audioElement.src.kind = "mediaSource" => audioElement.endOfStream
    /\ audioElement' = [audioElement EXCEPT !.ended = TRUE, !.paused = TRUE,
                                            !.onEnded = {}]
    /\ state' = SetState(state, "ended", state.currentAudioId)
    /\ emitted' = << StateChange(state.currentAudioId),
                     <<"playEnd", state.currentAudioId>> >>
    /\ requests' = [r \in Requests |->
          [requests[r] EXCEPT
              !.onEnded = IF r \in audioElement.onEnded THEN SettleOnce(@, "resolved") ELSE @,
              !.playedOut = @ \/ audioElement.src.request = r]]
    /\ UNCHANGED <<now, cacheVars, isInitialized, activeStreams, aborted>>
    /\ UNCHANGED <<sinkVars, listenerVars, managerVars>>

\* ------------------------------------------------- the streamer, in use

\* The store holds nothing, or an entry that an earlier session of the
\* application has set.
StoredBefore ==
    {EmptyMap} \cup
    {MapPut(EmptyMap, id, MakeEntry(id, ChunksAB, "audio/mpeg", 0, {})) : id \in StreamIds}

StreamerOverStore ==
    /\ now = 0
    /\ durable \in StoredBefore
    /\ InitCache
    /\ StreamerInit
    /\ ManagersInit

\* One request.  The database of the cache opens and loads; a put or a lookup
\* of the store may fail, and so may the fetch, the body of the response, the
\* processor, the feed and play().
StreamerNext ==
    \/ Uninterrupted /\ InitOpenDone(TRUE)
    \/ Uninterrupted /\ InitLoadDone(TRUE)
    \/ Uninterrupted /\ InitEstimateDone
    \/ \E r \in Requests, ok \in BOOLEAN :
        \/ Uninterrupted /\ PutDone(r, ok)
        \/ Uninterrupted /\ GetEntryDone(r, ok)
    \/ \E r \in Requests : InitializeReturned(r) \/ GetReturned(r) \/ SetReturned(r)
    \/ \E id \in StreamIds : StreamFromUrl(RequestOrder[1], id)
    \/ \E r \in Requests :
        \/ \E ok \in BOOLEAN, body \in Bodies, ct \in ContentTypes :
              FetchDone(r, ok, body, ct)
        \/ \E ok \in BOOLEAN : ProcessDone(r, ok)
        \/ BodyError(r)
        \/ FillFail(r)
        \/ FillRead(r)
        \/ Cancel(r)
        \/ FeedFirstRead(r)
        \/ FeedSourceOpen(r)
        \/ FeedFail(r)
        \/ \E d \in 0..MaxChunkSeconds : FeedAppendDone(r, d)
        \/ FeedRead(r)
        \/ \E ok \in BOOLEAN : FeedPlayDone(r, ok)
    \/ Play
    \/ AudioCanPlay
    \/ AudioPlay
    \/ \E d \in {0, MaxLoaded}, seconds \in {0, MaxLoaded} : AudioProgress(d, seconds)
    \/ AudioEnded

SpecStreamer == StreamerOverStore /\ [][StreamerNext]_vars

\* Two requests, one after the other, over a store that is empty at first.
\* No request to the store and no fetch fails, every append grows the buffer
\* by MaxChunkSeconds and the feed does not fail.
ReplayNext ==
    \/ Uninterrupted /\ InitOpenDone(TRUE)
    \/ Uninterrupted /\ InitLoadDone(TRUE)
    \/ Uninterrupted /\ InitEstimateDone
    \/ \E r \in Requests :
        \/ Uninterrupted /\ PutDone(r, TRUE)
        \/ Uninterrupted /\ GetEntryDone(r, TRUE)
    \/ \E r \in Requests :
        \/ InitializeReturned(r) \/ GetReturned(r) \/ SetReturned(r)
        \/ \E id \in Ids : StreamFromUrl(r, id)
        \/ \E body \in Bodies, ct \in ContentTypes : FetchDone(r, TRUE, body, ct)
        \/ \E ok \in BOOLEAN : ProcessDone(r, ok)
        \/ FillRead(r)
        \/ Cancel(r)
        \/ FeedFirstRead(r)
        \/ FeedSourceOpen(r)
        \/ FeedAppendDone(r, MaxChunkSeconds)
        \/ FeedRead(r)
        \/ FeedPlayDone(r, TRUE)
    \/ Play
    \/ AudioCanPlay
    \/ AudioPlay
    \/ AudioEnded

SpecReplay == Init /\ [][ReplayNext]_vars

\* Calls of appendToSourceBuffer on one SourceBuffer, made whether or not an
\* earlier append is under way; an append may fail and a call may time out.
AppendNext ==
    \/ \E p \in AppendCalls : AppendToSourceBuffer(p) \/ AppendTimeout(p)
    \/ \E ok \in BOOLEAN : UpdateEnd(ok)

SpecAppend == Init /\ [][AppendNext]_vars

\* detectAudioFormat is called with one byte array after the other.
SniffInit ==
    /\ CacheInit
    /\ StreamerInit
    /\ sniffed \in {[NoSniff EXCEPT !.bytes = b] : b \in SniffInputs}
    /\ creation = NoCreation
    /\ SoundsInit
    /\ ContextStart("desktop", FALSE)
    /\ RecorderInit
    /\ PlaylistInit

SniffNext ==
    \/ DetectFormat
    \/ \E bytes \in SniffInputs : SniffAgain(bytes)

SpecSniff == SniffInit /\ [][SniffNext]_vars

\* Callbacks are added and removed and events are emitted.
EmitNext ==
    \E type \in EventTypes :
        \/ \E cb \in Callbacks : On(type, cb) \/ Off(type, cb)
        \/ EmitEvent(type)

SpecEmit == Init /\ [][EmitNext]_vars

\* Two requests for one id, the second made while the first may still be
\* streaming.  No fetch fails, a write to the store may fail, the body is
\* ChunksMp3 and may error, every append grows the buffer by MaxChunkSeconds,
\* play() succeeds and the element's own events are left out.
OverlapNext ==
    \/ Uninterrupted /\ InitOpenDone(TRUE)
    \/ Uninterrupted /\ InitLoadDone(TRUE)
    \/ Uninterrupted /\ InitEstimateDone
    \/ \E r \in Requests, ok \in BOOLEAN : Uninterrupted /\ PutDone(r, ok)
    \/ \E r \in Requests : Uninterrupted /\ GetEntryDone(r, TRUE)
    \/ \E r \in Requests :
        \/ InitializeReturned(r) \/ GetReturned(r) \/ SetReturned(r)
        \/ \E id \in StreamIds : StreamFromUrlUnawaited(r, id)
        \/ \E ct \in ContentTypes : FetchDone(r, TRUE, ChunksMp3, ct)
        \/ ProcessDone(r, TRUE)
        \/ BodyError(r)
        \/ FillFail(r)
        \/ FillRead(r)
        \/ Cancel(r)
        \/ FeedFirstRead(r)
        \/ FeedSourceOpen(r)
        \/ FeedFail(r)
        \/ FeedAppendDone(r, MaxChunkSeconds)
        \/ FeedRead(r)
        \/ FeedPlayDone(r, TRUE)

SpecOverlap == Init /\ [][OverlapNext]_vars

\* Callbacks are registered before the first request, two requests for one id
\* overlap and dispose() is called at any moment.  Nothing fails, every append
\* grows the buffer by MaxChunkSeconds and the element's own events are left
\* out.
DisposeNext ==
    \/ Uninterrupted /\ InitOpenDone(TRUE)
    \/ Uninterrupted /\ InitLoadDone(TRUE)
    \/ Uninterrupted /\ InitEstimateDone
    \/ \E type \in EventTypes :
          /\ requests[RequestOrder[1]].pc = "none"
          /\ eventCallbacks[type] = <<>>
          /\ On(type, "f")
    \/ Dispose
    \/ \E r \in Requests :
        \/ Uninterrupted /\ PutDone(r, TRUE)
        \/ Uninterrupted /\ GetEntryDone(r, TRUE)
        \/ InitializeReturned(r) \/ GetReturned(r) \/ SetReturned(r)
        \/ \E id \in StreamIds : StreamFromUrlUnawaited(r, id)
        \/ FetchDone(r, TRUE, ChunksMp3, "audio/mpeg")
        \/ ProcessDone(r, TRUE)
        \/ FillRead(r)
        \/ FeedFirstRead(r)
        \/ FeedSourceOpen(r)
        \/ FeedAppendDone(r, MaxChunkSeconds)
        \/ FeedRead(r)
        \/ FeedPlayDone(r, TRUE)

SpecDispose == Init /\ [][DisposeNext]_vars

\* Sounds are registered, played without awaiting, end and are stopped while
\* the clock runs.
SoundsNext ==
    \/ Tick
    \/ \E key \in SoundKeys : RegisterSound(key) \/ StopSound(key)
    \/ \E c \in PlayCalls :
        \/ \E key \in SoundKeys : PlaySound(c, key)
        \/ \E ok \in BOOLEAN : PlayInitialized(c, ok) \/ SoundLoaded(c, ok)
                                  \/ SoundPlayDone(c, ok)
        \/ SoundEnded(c)

SpecSounds == Init /\ [][SoundsNext]_vars

\* ensureUnlocked is called three times without awaiting, by callers and by
\* the auto-unlock handler, on every platform.
UnlockNext ==
    \/ StopSilentAudioLoop
    \/ \E c \in UnlockCalls :
        \/ \E byHandler \in BOOLEAN, created \in {"suspended", "running"} :
              EnsureUnlocked(c, byHandler, created)
        \/ \E ok \in BOOLEAN : ResumeDone(c, ok) \/ SilentPlayDone(c, ok)
        \/ SilentBufferDone(c)

\* The manager is made on any platform, with the autoUnlock option or without.
UnlockInit ==
    /\ CacheInit
    /\ StreamerInit
    /\ sniffed = NoSniff
    /\ creation = NoCreation
    /\ SoundsInit
    /\ RecorderInit
    /\ PlaylistInit
    /\ \E p \in Platforms, autoUnlock \in BOOLEAN : ContextStart(p, autoUnlock)

SpecUnlock == UnlockInit /\ [][UnlockNext]_vars

\* The same with one dispose() at any moment.
ContextNext ==
    \/ UnlockNext
    \/ DisposeContext
    \/ CloseDone

SpecContext == UnlockInit /\ [][ContextNext]_vars

\* Recordings are started, fed, paused, resumed, stopped and cancelled.
RecorderNext ==
    \/ DataAvailable
    \/ PauseRecording
    \/ ResumeRecording
    \/ StopRecording
    \/ CancelRecording
    \/ \E ok \in BOOLEAN : StopDone(ok)
    \/ \E k \in RecordCalls :
        \/ StartRecording(k)
        \/ \E ok \in BOOLEAN : RecorderInitialized(k, ok) \/ PermissionDone(k, ok)
                                  \/ MediaRecorderCreated(k, ok)

SpecRecorder == Init /\ [][RecorderNext]_vars

\* A playlist is loaded, edited and disposed of and its tracks are played, in
\* sequential mode without shuffle.
SequentialNext ==
    \/ DisposePlaylist
    \/ \E items \in Playlists : LoadPlaylist(items)
    \/ \E index \in {-1, 0} : AddTrack(AddedTrack, index)
    \/ \E index \in 0..(MaxTracks - 1) : RemoveTrack(index)
    \/ PausePlaylist
    \/ ClearPlaylist
    \/ \E c \in UserCalls :
        \/ \E index \in -1..MaxTracks : PlayTrack(c, index)
        \/ \E ok \in BOOLEAN : PlayTrackBegun(c, ok) \/ PlayTrackLoaded(c, ok)
        \/ NextTrack(c)
        \/ PreviousTrack(c)
        \/ TrackEnded(c)

SpecSequential == Init /\ [][SequentialNext]_vars

\* ---------------------------------------------------- properties: cache

Quiet == \A c \in Callers : calls[c].pc = "idle"

\* The entry of id is in neither layer / is still the entry e in the store.
Gone(id) == id \notin DOMAIN memoryCache /\ id \notin DOMAIN durable

\* C2: a get(id) that returns after set(id, chunks, mime) resolved, with no set,
\* delete, clear or cleanup of that id in between, returns chunks whose bytes,
\* one after the other, are those of the chunks that were set; this holds for a
\* get served by the memory cache and for one served by the store.
C2_GetReturnsTheBytesSet ==
    \A c \in Callers :
        LET r == results[c]
        IN  (r.kind = "get" /\ r.status = "resolved" /\ r.expect # <<>>)
                => r.found /\ Concat(r.chunks) = Concat(r.expect[1])

\* C2, its case: after close() and a new initialize(), a get is served by the
\* store and returns a payload of several chunks.
C2_Witness ==
    \E c \in Callers :
        /\ results[c].kind = "get" /\ results[c].status = "resolved"
        /\ results[c].expect # <<>>
        /\ results[c].layer = "durable"
        /\ Len(results[c].chunks) > 1

\* C7: after delete(id) has resolved, the entry is in neither the memory cache
\* nor the store (so get(id) returns null and has(id) false) and the id has no
\* access counter.
C7_DeleteRemovesEverywhere ==
    \A c \in Callers :
        (results[c].kind = "delete" /\ results[c].status = "resolved")
            => Gone(results[c].id) /\ results[c].id \notin DOMAIN accessCounts

CleanedUp(c) == results[c].kind = "cleanup" /\ results[c].status = "resolved"

\* C6: cleanup({minAccessCount: 1}) deletes from the store every entry that was
\* never read since it was set, and keeps every entry that a get has returned
\* at least once.
C6_ReadEntriesSurvive ==
    \A c \in Callers :
        (/\ CleanedUp(c)
         /\ results[c].opts = MinAccessCount(1))
            => \A id \in DOMAIN results[c].before :
                  /\ hist.reads[id] = 0 => id \notin DOMAIN durable
                  /\ hist.reads[id] >= 1 => id \in DOMAIN durable

\* C8: after cleanup({maxEntries: N}), here for N >= 1, at most N entries are in
\* the cache, and no evicted entry ranks above a survivor in (accessCount, cachedAt).
C8_AtMostMaxEntries ==
    \A c \in Callers :
        (/\ CleanedUp(c)
         /\ results[c].opts.maxEntries >= 1
         /\ results[c].opts = MaxEntries(results[c].opts.maxEntries))
            => LET before == results[c].before
                   held == DOMAIN memoryCache \cup DOMAIN durable
               IN  /\ Cardinality(held) <= results[c].opts.maxEntries
                   /\ \A e \in DOMAIN before \ held, k \in DOMAIN before \cap held :
                          CompareEntries(before[e], before[k]) <= 0

\* C9: cleanup({maxAge: T}), here for T >= 1, removes from the cache exactly the
\* entries with now - cachedAt > T, keeps the others and returns the number removed.
C9_ExactlyTheOldEntries ==
    \A c \in Callers :
        (/\ CleanedUp(c)
         /\ results[c].opts.maxAge >= 1
         /\ results[c].opts = MaxAge(results[c].opts.maxAge))
            => LET r == results[c]
                   old == {id \in DOMAIN r.before :
                              r.at - r.before[id].cachedAt > r.opts.maxAge}
               IN  /\ \A id \in old : Gone(id)
                   /\ \A id \in DOMAIN r.before \ old :
                          id \in DOMAIN durable /\ durable[id] = r.before[id]
                   /\ r.count = Cardinality(old)

\* ------------------------------------------------ properties: streamer

\* C1: a request that finds its id in the cache, where an earlier streamFromUrl
\* of the same id has stored it, emits cacheHit and has sent no network fetch.
C1_CacheHitWithoutFetch ==
    \A r \in Requests : requests[r].cacheHit => requests[r].fetches = 0

\* The lifecycle signals of C3.
LifecycleSignals ==
    {"stateChange", "canPlay", "playStart", "playEnd", "bufferProgress", "error"}

\* C3: once cancel() has aborted a request whose playback feed was under way,
\* the audio element has no source and no step emits a lifecycle signal with
\* the id of that request.
C3_CancelResetsAndSilences ==
    \A r \in Requests :
        requests[r].cut =>
            /\ audioElement.src = NoSource
            /\ \A i \in 1..Len(emitted) :
                  ~(emitted[i][1] \in LifecycleSignals /\ emitted[i][2] = requests[r].id)

\* C4: when the caller holds the StreamResult of a request and the element has
\* played the source of that request to its end, the request's onEnded promise
\* is resolved.
C4_OnEndedResolves ==
    \A r \in Requests :
        (requests[r].pc = "returned" /\ requests[r].playedOut)
            => requests[r].onEnded = "resolved"

\* play() was called for the request and its onLoaded promise is resolved.
Started(r) ==
    /\ requests[r].playbackStarted \/ requests[r].feed = "playFinal"
    /\ requests[r].plays = 1
    /\ requests[r].onLoaded = "resolved"

\* C5: while the feed of a request that was not aborted runs without a failure,
\* play() is called at most once; it has been called, and onLoaded is resolved,
\* as soon as an append has brought the buffered end to bufferThreshold, and as
\* soon as the body has ended.
C5_PlaybackStartsAtThreshold ==
    \A r \in Requests :
        /\ requests[r].plays <= 1
        /\ (/\ requests[r].feed \in {"read", "append", "play", "playFinal"}
            /\ ~aborted[r]
            /\ requests[r].sufficient) => Started(r)
        /\ (requests[r].feed = "playFinal" /\ ~aborted[r]) => Started(r)

\* --------------------------------------- properties: the two consumers

\* The fill of request r ended on a body error or on finding the request aborted.
FillBroken(r) == requests[r].fillError \/ requests[r].fillCut

\* C11: _cacheFromResponse issues a set only with every chunk of the payload,
\* read to its end; a fill ended by a body error or a cancellation issues no
\* set and its last step leaves the memory cache, the store and the queue of
\* store requests as they were; so every cached chunk sequence is a whole
\* payload.
C11_FillStoresWholePayloads ==
    /\ [](\A r \in Requests :
            /\ requests[r].pc = "set" =>
                  /\ requests[r].chunks = requests[r].body
                  /\ calls[r].pc = "put" => calls[r].entry[1].chunks = requests[r].body
            /\ FillBroken(r) => results[r].kind # "set" /\ calls[r].kind # "set")
    /\ [](\A id \in DOMAIN memoryCache : memoryCache[id].chunks \in Bodies)
    /\ [](\A id \in DOMAIN durable : durable[id].chunks \in Bodies)
    /\ [][\A r \in Requests :
            ~FillBroken(r) /\ FillBroken(r)' =>
                /\ memoryCache' = memoryCache
                /\ durable' = durable
                /\ idbQueue' = idbQueue]_vars

\* A fill was cut short by a cancellation in the middle of the payload while
\* the cache held an entry for the id.
C11_Witness ==
    \E r \in Requests :
        /\ requests[r].fillCut
        /\ requests[r].filled > 0 /\ requests[r].filled < Len(requests[r].body)
        /\ requests[r].id \in DOMAIN memoryCache
        /\ requests[r].id \in DOMAIN durable

\* C12: a rejected set of the fill leaves onLoaded as it is and emits no error
\* signal, and a request whose set rejected while its feed did not fail has
\* no rejected onLoaded; a failing feed leaves the fill where it is, and a
\* fill that ends with no body error and no cancellation after its feed
\* failed has issued the set with every chunk of the payload.
C12_ConsumersFailIndependently ==
    /\ [](\A r \in Requests :
            /\ results[r].kind = "set" /\ results[r].status = "rejected"
                  /\ requests[r].feedError = "none"
                  => requests[r].onLoaded # "rejected"
            /\ requests[r].feedError # "none" /\ requests[r].pc = "returned"
                  /\ ~FillBroken(r)
                  => /\ results[r].kind = "set"
                     /\ requests[r].chunks = requests[r].body
                     /\ results[r].status = "resolved" =>
                            /\ requests[r].id \in DOMAIN memoryCache
                            /\ memoryCache[requests[r].id].chunks \in Bodies)
    /\ [][\A r \in Requests :
            /\ requests[r].pc = "set" /\ requests'[r].pc # "set" =>
                  /\ requests'[r].pc = "returned"
                  /\ requests'[r].onLoaded = requests[r].onLoaded
                  /\ \A i \in 1..Len(emitted') : emitted'[i][1] # "error"
            /\ requests[r].feedError = "none" /\ requests'[r].feedError # "none" =>
                  /\ requests'[r].pc = requests[r].pc
                  /\ requests'[r].chunks = requests[r].chunks
                  /\ requests'[r].filled = requests[r].filled
                  /\ calls'[r] = calls[r]]_vars

\* The set of one request rejected and its feed went on to start playback,
\* while the feed of the other failed and its fill stored the payload.
C12_Witness ==
    \E r1, r2 \in Requests :
        /\ results[r1].kind = "set" /\ results[r1].status = "rejected"
        /\ requests[r1].feedError = "none" /\ requests[r1].onLoaded = "resolved"
        /\ requests[r2].feedError = "reported" /\ requests[r2].pc = "returned"
        /\ results[r2].kind = "set" /\ results[r2].status = "resolved"

\* C13: the step in which the playback feed of a request that was not
\* cancelled fails rejects onLoaded, emits exactly one error signal, tagged
\* with the request's id, and makes the streamer's state 'error' for that id.
C13_FeedFailureBecomesError ==
    [][\A r \in Requests :
          requests[r].feedError = "none" /\ requests'[r].feedError = "reported" =>
              /\ requests'[r].onLoaded = "rejected"
              /\ emitted' = << <<"error", requests[r].id>> >>
              /\ state'.state = "error"
              /\ state'.currentAudioId = requests[r].id]_vars

\* C14: every change of the streamer's state follows an edge of
\* idle -> loading -> (streaming | playing) -> (ended | error), with
\* streaming -> playing and playing -> paused -> playing besides, a new
\* request beginning at loading whatever the state was; so streaming and
\* playing are entered from loading, streaming, playing or paused only.
C14_StateFollowsEdges ==
    [][state'.state # state.state =>
          <<state.state, state'.state>> \in
              {<<"idle", "loading">>,
               <<"loading", "streaming">>, <<"loading", "playing">>,
               <<"streaming", "playing">>,
               <<"loading", "error">>,
               <<"streaming", "ended">>, <<"streaming", "error">>,
               <<"playing", "ended">>, <<"playing", "error">>,
               <<"playing", "paused">>, <<"paused", "playing">>,
               <<"paused", "ended">>, <<"paused", "error">>,
               <<"ended", "loading">>, <<"error", "loading">>,
               <<"streaming", "loading">>, <<"playing", "loading">>,
               <<"paused", "loading">>}]_vars

\* C15: once a later request has started its stream, from the network or from
\* the cache, the playback feed of no earlier request is still under way.
C15_EarlierFeedTornDown ==
    \A i, j \in 1..Len(RequestOrder) :
        /\ i < j
        /\ requests[RequestOrder[j]].pc \in {"process", "fill", "set", "returned"}
        => requests[RequestOrder[i]].feed \in {"none", "done"}

\* Request r streamed a streamable payload on a cache miss to the end: its feed
\* and its fill are done with no failure and no cancellation and its set
\* resolved.
StreamedAndStored(r) ==
    /\ requests[r].pc = "returned" /\ requests[r].feed = "done"
    /\ ~requests[r].cacheHit
    /\ requests[r].body # <<>>
    /\ DetectAudioFormat(requests[r].body[1]).streamable
    /\ requests[r].feedError = "none" /\ ~FillBroken(r)
    /\ ~aborted[r] /\ ~requests[r].cancelled
    /\ results[r].kind = "set" /\ results[r].status = "resolved"

\* C17: when a streamable payload was streamed on a cache miss with no failure
\* and no cancellation, the chunks appended to the SourceBuffer and the chunks
\* stored under the id, in the memory cache and in the store, are the same
\* sequence, and the bytes of each are those of the whole payload.
C17_FeedAndCacheGetTheSamePayload ==
    \A r \in Requests :
        StreamedAndStored(r) =>
            /\ Concat(requests[r].appended) = Concat(requests[r].body)
            /\ requests[r].id \in DOMAIN memoryCache
            /\ requests[r].id \in DOMAIN durable
            /\ memoryCache[requests[r].id].chunks = requests[r].appended
            /\ durable[requests[r].id].chunks = requests[r].appended
            /\ Concat(memoryCache[requests[r].id].chunks) = Concat(requests[r].body)

\* A payload of more than one chunk was streamed and stored.
C17_Witness ==
    \E r \in Requests :
        /\ StreamedAndStored(r)
        /\ Len(requests[r].body) > 1
        /\ Len(requests[r].appended) > 1

\* ------------------------------------------- properties: cache failures

\* C18: while the last initialize() has failed, whatever set, delete, clear or
\* get (on a memory miss) has settled since was rejected.
C18_FailedInitRejects ==
    \A c \in Clients :
        /\ initPromise = "rejected"
        /\ \/ results[c].kind \in {"set", "delete", "clear"}
           \/ results[c].kind = "get" /\ results[c].layer # "memory"
        => results[c].status = "rejected"

\* Caller c is in `kind` awaiting the store request `pc` and the next state has
\* the call rejected.
RejectedAt(c, kind, pc) ==
    /\ calls[c].kind = kind /\ calls[c].pc = pc
    /\ calls'[c].pc = "idle"
    /\ results'[c].kind = kind /\ results'[c].status = "rejected"

\* C19: a set whose write to the store fails rejects with a CacheError that
\* carries the id, and the memory cache, the access counts, the stats and the
\* store are what they were; a get whose read of the store fails and a delete
\* whose request fails reject with a CacheError that carries the id.
C19_FailedStoreRequestsReject ==
    [][\A c \in Clients :
          /\ RejectedAt(c, "set", "put") =>
                /\ results'[c].errorId = calls[c].id
                /\ memoryCache' = memoryCache
                /\ accessCounts' = accessCounts
                /\ stats' = stats
                /\ durable' = durable
          /\ RejectedAt(c, "get", "getEntry") => results'[c].errorId = calls[c].id
          /\ RejectedAt(c, "delete", "deleteEntry") => results'[c].errorId = calls[c].id]_vars

\* A set of an id that has an entry was rejected with the id, the entry being
\* in both layers still.
C19_Witness ==
    \E c \in Clients :
        /\ results[c].kind = "set" /\ results[c].status = "rejected"
        /\ results[c].errorId = results[c].id
        /\ results[c].id \in DOMAIN memoryCache
        /\ results[c].id \in DOMAIN durable
        /\ memoryCache[results[c].id] = durable[results[c].id]

\* --------------------------------------------- properties: SourceBuffer

\* C16: appendBuffer is never called on the SourceBuffer while it is updating,
\* and the data the SourceBuffer has taken in are those of the calls made,
\* in the order of the calls.
C16_AppendsSerializedInOrder ==
    /\ sourceBuffer.refused = <<>>
    /\ \A i, j \in 1..Len(sourceBuffer.buffered) :
          i < j => sourceBuffer.buffered[i][1] < sourceBuffer.buffered[j][1]

\* ------------------------------------------ properties: event callbacks

\* C20: _emitEvent lets no exception of a callback out, and it invokes every
\* callback registered for the type, in order, whichever of them throw; each
\* exception is logged.
C20_ThrowingListenerIsContained ==
    dispatched.type # "" =>
        /\ ~dispatched.escaped
        /\ dispatched.invoked = dispatched.registered
        /\ dispatched.logged =
              Cardinality({i \in 1..Len(dispatched.registered) :
                              dispatched.registered[i] \in ThrowingCallbacks})

\* An event was emitted to a callback that throws and is followed by one that
\* does not.
C20_Witness ==
    /\ dispatched.type # ""
    /\ \E i, j \in 1..Len(dispatched.registered) :
          /\ i < j
          /\ dispatched.registered[i] \in ThrowingCallbacks
          /\ dispatched.registered[j] \notin ThrowingCallbacks
          /\ dispatched.invoked[j] = dispatched.registered[j]

\* ------------------------------------------------ properties: the sniffer

\* C21: detectAudioFormat returns what the rules give for the bytes: wav with
\* requiresConversion for RIFF at 0..3 and WAVE at 8..11; else mp3, streamable,
\* for an ID3 tag or 0xFF followed by a byte with the top three bits set; else
\* webm, streamable, for 1A 45 DF A3; else ogg, streamable, for OggS; else
\* unknown, not streamable, with mime audio/mpeg.
C21_FormatFollowsTheRules ==
    sniffed.format # <<>> =>
        LET b == sniffed.bytes
            starts(sig) == Len(b) >= Len(sig) /\ SubSeq(b, 1, Len(sig)) = sig
            f == sniffed.format[1]
        IN  CASE starts(<<82, 73, 70, 70>>) /\ Len(b) >= 12
                    /\ SubSeq(b, 9, 12) = <<87, 65, 86, 69>> ->
                    f.type = "wav" /\ f.requiresConversion
              [] starts(<<73, 68, 51>>)
                    \/ (Len(b) >= 2 /\ b[1] = 255 /\ b[2] \div 32 = 7) ->
                    f.type = "mp3" /\ f.streamable
              [] starts(<<26, 69, 223, 163>>) -> f.type = "webm" /\ f.streamable
              [] starts(<<79, 103, 103, 83>>) -> f.type = "ogg" /\ f.streamable
              [] OTHER ->
                    f.type = "unknown" /\ ~f.streamable /\ f.mimeType = "audio/mpeg"

\* --------------------------------------------------- properties: dispose

\* The playback feed or the cache fill of request r is under way.
ActiveStream(r) ==
    \/ requests[r].feed \notin {"none", "done"}
    \/ requests[r].pc = "fill"

\* The callbacks the events of the last step of the streamer were handed to,
\* as <<type, callback>>.
Handed ==
    UNION {{<<emitted[i][1], InvokeAll(eventCallbacks[emitted[i][1]]).invoked[k]>> :
               k \in 1..Len(InvokeAll(eventCallbacks[emitted[i][1]]).invoked)} :
           i \in {j \in 1..Len(emitted) : emitted[j][1] \in EventTypes}}

\* C22: dispose() aborts the controller of every request whose feed or fill is
\* under way, empties _activeStreams, closes the cache and removes every
\* callback, and no later event of the streamer is handed to a callback that
\* dispose() removed.
C22_DisposeSilencesEveryStream ==
    /\ [][Dispose =>
            /\ \A r \in Requests : ActiveStream(r) => aborted'[r]
            /\ activeStreams' = EmptyMap
            /\ ~db' /\ memoryCache' = EmptyMap /\ initPromise' = "null"
            /\ \A type \in EventTypes : eventCallbacks'[type] = <<>>]_vars
    /\ [](\A h \in Handed : h[2] \notin dropped[h[1]])

\* ---------------------------------------------------- properties: sounds

\* C23: never more than maxConcurrentSounds elements play at once and
\* _activeSounds never holds more; a playSound that finds _activeSounds full
\* returns null and starts nothing.
C23_ActiveSoundsWithinLimit ==
    /\ [](Cardinality(playing) <= MaxConcurrentSounds)
    /\ [](Cardinality(DOMAIN activeSounds) <= MaxConcurrentSounds)
    /\ [][\A c \in PlayCalls :
            /\ playCalls[c].pc = "initialize" /\ playCalls'[c].pc # "initialize"
            /\ playCalls[c].key \in soundEffects
            /\ soundsInitialized'
            /\ Cardinality(DOMAIN activeSounds) >= MaxConcurrentSounds
            => /\ playCalls'[c].result = "null"
               /\ playing' = playing /\ activeSounds' = activeSounds]_vars

\* C27: stopSound(key) stops and removes the elements of the calls made with
\* the key that are in _activeSounds, and leaves the element of every call
\* made with another key playing and in _activeSounds.
C27_StopSoundStopsItsKeyOnly ==
    [][\A key \in SoundKeys :
          StopSound(key) =>
              \A k \in DOMAIN activeSounds :
                  LET c == activeSounds[k]
                  IN  IF playCalls[c].key = key
                      THEN k \notin DOMAIN activeSounds' /\ c \notin playing'
                      ELSE /\ k \in DOMAIN activeSounds' /\ activeSounds'[k] = c
                           /\ (c \in playing => c \in playing')]_vars

\* ----------------------------------------- properties: AudioContextManager

\* The ensureUnlocked calls that are inside _unlockIOSAudio past its test.
InUnlockSequence == {c \in UnlockCalls : unlockCalls[c].pc \in {"play", "buffer"}}

C28_DisposedStaysLocked ==
    unlockHist.quietSinceDispose =>
        /\ unlockFlags.isLocked
        /\ ~unlockFlags.iosAudioUnlocked
        /\ ~unlockFlags.autoUnlockRegistered
        /\ silentAudioElement = ""
        /\ silentInDocument = {}

\* ----------------------------------------------- properties: AudioRecorder

\* C25: once the recording a startRecording call started has been stopped and
\* finalized (the state is completed with its recordingId and stopRecording
\* has resolved with its data), the onCompleted promise of that call is
\* resolved.
C25_OnCompletedResolves ==
    \A k \in RecordCalls :
        /\ recordings[k].pc = "returned" /\ recordings[k].onStarted = "resolved"
        /\ recorderState.state = "completed" /\ recorderState.recordingId = k
        /\ stopCall.pc = "done" /\ stopCall.result = "data" /\ stopCall.recording = k
        => recordings[k].onCompleted = "resolved"

\* --------------------------------------------- properties: PlaylistManager

\* C26: in sequential mode without shuffle, getState().canPlayNext is false
\* exactly when the playlist is empty or the current index is the last one,
\* canPlayPrevious is false exactly when the playlist is empty or the current
\* index is the first one, and in those cases next() and previous() leave the
\* current index as it is.
C26_EdgesOfThePlaylist ==
    /\ [](playMode = "sequential" /\ ~isShuffled =>
            /\ ~playlistState.canPlayNext <=>
                  (playlist = <<>> \/ currentIndex = Len(playlist) - 1)
            /\ ~playlistState.canPlayPrevious <=>
                  (playlist = <<>> \/ currentIndex = 0))
    /\ [][\A c \in TrackCalls :
            /\ playMode = "sequential" /\ ~isShuffled
            /\ \/ NextTrack(c) /\ (playlist = <<>> \/ currentIndex = Len(playlist) - 1)
               \/ PreviousTrack(c) /\ (playlist = <<>> \/ currentIndex = 0)
            => /\ currentIndex' = currentIndex
               /\ trackCalls' = trackCalls]_vars

\* -------------------------------------------- AudioCache: initialize() shared

\* Every caller calls initialize(), while an initialization is under way and
\* after it has settled, and reads an entry.  The store may hold an entry of
\* an earlier session.  Opening the database may fail and so may loading its
\* entries; close() is not called.
InitNext ==
    \/ \E c \in Callers :
        \/ ClientInitialize(c)
        \/ \E id \in StreamIds : ClientGet(c, id)
    \/ \E ok \in BOOLEAN : InitOpenDone(ok) \/ InitLoadDone(ok)
    \/ InitEstimateDone
    \/ \E c \in Callers : GetEntryDone(c, TRUE)

SpecInit == StreamerOverStore /\ [][InitNext]_vars

\* The steps of _performInitialization in the order it takes them.
InitSteps ==
    {<<"none", "open">>, <<"open", "load">>, <<"load", "estimate">>,
     <<"estimate", "none">>, <<"open", "none">>, <<"load", "none">>}

\* ---------------------------------------- properties: AudioCache.initialize

\* C29: without a close(), the initialize() calls, concurrent or sequential,
\* open the database and load the memory cache once: an initialization begins
\* only when no promise of one is held, the promise is never dropped or
\* restarted, the database opens and the memory cache is loaded only in the
\* steps of that one initialization (a get that finds its entry in the store
\* is the one other writer of the memory cache), and every initialize() call
\* awaits that promise and settles with its outcome, in the step in which it
\* settles.
C29_OneInitialization ==
    /\ [](\A c \in Callers :
            /\ calls[c].pc = "waitInit" =>
                  /\ initPromise = "pending"
                  /\ \E i \in 1..Len(initWaiters) : initWaiters[i] = c
            /\ results[c].kind = "initialize" /\ results[c].status # "none" =>
                  results[c].status = initPromise)
    /\ [][/\ initStep' # initStep => <<initStep, initStep'>> \in InitSteps
          /\ initStep' = "open" /\ initStep # "open" => initPromise = "null"
          /\ initPromise # "null" => initPromise' # "null"
          /\ initPromise \in {"resolved", "rejected"} =>
                initPromise' = initPromise /\ initStep' = "none"
          /\ db' # db => initStep = "open" /\ initStep' = "load"
          /\ memoryCache' # memoryCache =>
                \/ initStep = "load" /\ initStep' = "estimate"
                \/ \E c \in Callers : calls[c].pc = "getEntry" /\ calls'[c].pc = "idle"
          /\ initPromise = "pending" /\ initPromise' # "pending" =>
                \A i \in 1..Len(initWaiters) :
                    calls[initWaiters[i]].kind = "initialize" =>
                        /\ calls'[initWaiters[i]].pc = "idle"
                        /\ results'[initWaiters[i]].status = initPromise']_vars

\* Three callers await the one initialization, which has opened the database
\* and loaded the entry of the store into the memory cache.
C29_Witness ==
    /\ initPromise = "pending" /\ initStep = "estimate" /\ db
    /\ memoryCache # EmptyMap
    /\ Len(initWaiters) = 3
    /\ \A c \in Callers : calls[c].kind = "initialize" /\ calls[c].pc = "waitInit"

\* ------------------------------------------- AudioCache: writers of one id

\* Every caller sets the one id to either payload and reads it, none awaiting
\* the others.  The store may hold an entry of an earlier session.  The
\* database opens and loads; a put may fail.
WritesNext ==
    \/ \E c \in Callers :
        \/ \E id \in StreamIds, chunks \in Payloads : ClientSet(c, id, chunks, "audio/mpeg", {})
        \/ \E id \in StreamIds : ClientGet(c, id)
    \/ InitOpenDone(TRUE)
    \/ InitLoadDone(TRUE)
    \/ InitEstimateDone
    \/ \E c \in Callers :
        \/ \E ok \in BOOLEAN : PutDone(c, ok)
        \/ GetEntryDone(c, TRUE)

SpecWrites == StreamerOverStore /\ [][WritesNext]_vars

\* Every call of the cache has settled, and there has been one.
Settled ==
    /\ initPromise = "resolved"
    /\ idbQueue = <<>>
    /\ \A c \in Callers : calls[c].pc = "idle"

\* ------------------------------------------- properties: AudioCache writes

\* C30: whatever the interleaving of the set and get calls on one id, a get
\* returns null or the whole chunk sequence of one set; a put that succeeds
\* leaves its own entry in both layers and nothing else changes the stored
\* entry; and once every call has settled the memory cache and the store
\* hold the same entry for the id, or both none.
C30_LastWriterWinsWhole ==
    /\ [](\A c \in Callers :
            results[c].kind = "get" /\ results[c].status = "resolved" =>
                IF results[c].found THEN results[c].chunks \in Payloads
                ELSE results[c].chunks = <<>>)
    /\ [](Settled =>
            \A id \in StreamIds :
                /\ id \in DOMAIN memoryCache <=> id \in DOMAIN durable
                /\ id \in DOMAIN durable => memoryCache[id] = durable[id])
    /\ [][\A id \in StreamIds :
            /\ \A c \in Callers :
                  /\ calls[c].pc = "put" /\ calls[c].id = id
                  /\ calls'[c].pc = "idle" /\ results'[c].status = "resolved"
                  => /\ id \in DOMAIN durable' /\ id \in DOMAIN memoryCache'
                     /\ durable'[id] = calls[c].entry[1]
                     /\ durable'[id].chunks = calls[c].chunks
                     /\ memoryCache'[id] = durable'[id]
            /\ durable' # durable =>
                  \E c \in Callers :
                      /\ calls[c].pc = "put" /\ calls'[c].pc = "idle"
                      /\ results'[c].status = "resolved"]_vars

\* Two callers have set the id to different payloads and a third has read it;
\* the get missed the memory cache when it was called and found in the store
\* what a set put there meanwhile.  Every call has settled.
C30_Witness ==
    /\ Settled
    /\ \E c1, c2, c3 \in Callers :
        /\ c1 # c2 /\ c1 # c3 /\ c2 # c3
        /\ results[c1].kind = "set" /\ results[c1].status = "resolved"
        /\ results[c2].kind = "set" /\ results[c2].status = "resolved"
        /\ results[c3].kind = "get" /\ results[c3].found
        /\ results[c3].layer = "durable" /\ results[c3].chunks = ChunksC
    /\ \A id \in StreamIds :
        id \in DOMAIN durable /\ durable[id].chunks = ChunksAB

\* ------------------------------------- properties: the requests' lifetime

\* streamFromResponse has returned for request r, neither consumer of its
\* payload is under way and, if it loaded, the element has played its source
\* to the end.
RequestOver(r) ==
    /\ requests[r].pc = "returned" /\ requests[r].feed \in {"none", "done"}
    /\ requests[r].onLoaded = "resolved" => requests[r].playedOut

\* The AbortController of request r is in _activeStreams.
Held(r) ==
    requests[r].id \in DOMAIN activeStreams /\ activeStreams[requests[r].id] = r

\* C31: once a request is over (its payload was processed to the end, or it
\* failed) or has been cancelled, _activeStreams no longer holds its id with
\* its AbortController.
C31_OverRequestsAreDropped ==
    \A r \in Requests : RequestOver(r) \/ requests[r].cancelled => ~Held(r)

\* ac is the beginning of the chunk sequence bc.
IsPrefix(ac, bc) ==
    Len(ac) <= Len(bc) /\ \A i \in 1..Len(ac) : ac[i] = bc[i]

UntrimmedNext ==
    \/ Uninterrupted /\ InitOpenDone(TRUE)
    \/ Uninterrupted /\ InitLoadDone(TRUE)
    \/ Uninterrupted /\ InitEstimateDone
    \/ \E r \in Requests :
        \/ Uninterrupted /\ PutDone(r, TRUE)
        \/ Uninterrupted /\ GetEntryDone(r, TRUE)
    \/ \E r \in Requests : InitializeReturned(r) \/ GetReturnedUntrimmed(r) \/ SetReturned(r)
    \/ \E id \in StreamIds : StreamFromUrl(RequestOrder[1], id)
    \/ \E r \in Requests :
        \/ \E body \in Bodies, ct \in ContentTypes : FetchDone(r, TRUE, body, ct)
        \/ FillRead(r)
        \/ Cancel(r)
        \/ FeedFirstRead(r)
        \/ FeedSourceOpen(r)
        \/ \E d \in 0..MaxChunkSeconds : FeedAppendDone(r, d)
        \/ FeedRead(r)
        \/ FeedPlayDone(r, TRUE)
        \/ \E ok \in BOOLEAN : CachedSourceOpen(r, ok)
        \/ \E d \in 0..MaxChunkSeconds : CachedAppendDone(r, d)
        \/ CachedAppendFail(r)
    \/ Play
    \/ AudioCanPlay
    \/ AudioPlay
    \/ AudioEnded

SpecUntrimmed == StreamerOverStore /\ [][UntrimmedNext]_vars

\* C33: the stream of a request's MediaSource is ended at most once, in the
\* step that ends its feed, when every chunk of the payload has been
\* appended and the request is not aborted; a feed that comes to its end
\* while its MediaSource is no longer the element's source (endOfStream
\* throws) rejects nothing and emits no error.
C33_EndOfStreamOnceAtTheEnd ==
    [][\A r \in Requests :
          /\ /\ audioElement.src = MediaSourceOf(r)
             /\ ~audioElement.endOfStream /\ audioElement'.endOfStream
             => /\ ~aborted[r]
                /\ requests'[r].appended = requests[r].body
                /\ requests[r].feed \notin {"playFinal", "done"}
                /\ requests'[r].feed \in {"playFinal", "done"}
          /\ requests[r].feed \in {"playFinal", "done"} =>
                requests'[r].feed \in {"playFinal", "done"}
          /\ /\ requests[r].feed = "read" /\ requests'[r].feed \in {"playFinal", "done"}
             /\ ~requests[r].broken /\ ~aborted[r]
             /\ audioElement.src # MediaSourceOf(r)
             => /\ requests'[r].onLoaded # "rejected" \/ requests[r].onLoaded = "rejected"
                /\ requests'[r].feedError = requests[r].feedError
                /\ \A i \in 1..Len(emitted') : emitted'[i][1] # "error"]_vars

\* ------------------------------------- properties: createSourceBuffer

\* createSourceBuffer is called with its default or with a retryCount, one
\* call after the other; each addSourceBuffer returns or throws.
CreationNext ==
    \/ CreateSourceBuffer(DefaultRetryCount, TRUE)
    \/ \E n \in RetryCounts : CreateSourceBuffer(n, FALSE)
    \/ AddSourceBufferDone
    \/ \E error \in AddErrors : AddSourceBufferThrown(error)
    \/ RetryTimerFired

SpecCreation == Init /\ [][CreationNext]_vars

\* C34: createSourceBuffer calls addSourceBuffer at most retryCount times, 3
\* by default; it returns in the step in which an attempt succeeds; before
\* attempt k + 1 it has waited 100 ms times k, and it waits only between
\* attempts; once every attempt has failed it throws the MediaSourceError
\* whose cause is the error of the last attempt.
C34_RetriesWithBackoff ==
    /\ [](/\ creation.tried <= creation.retryCount
          /\ creation.byDefault => creation.retryCount = 3 /\ creation.tried <= 3
          /\ \A i \in 1..Len(creation.waits) : creation.waits[i] = 100 * i
          /\ Len(creation.waits) =
                IF creation.pc = "wait" THEN creation.tried
                ELSE IF creation.tried = 0 THEN 0
                ELSE IF creation.pc = "try" THEN creation.tried
                ELSE creation.tried - 1
          /\ creation.pc = "returned" =>
                Len(creation.failures) = creation.tried - 1
          /\ creation.pc = "thrown" =>
                /\ creation.tried = creation.retryCount
                /\ Len(creation.failures) = creation.retryCount
                /\ creation.cause =
                      IF creation.failures = <<>> THEN <<>>
                      ELSE <<creation.failures[Len(creation.failures)]>>)
    /\ [][AddSourceBufferDone => creation'.pc = "returned"]_vars

\* A call with the default retryCount has thrown after three attempts that
\* failed with different errors and two waits.
C34_Witness ==
    /\ creation.byDefault /\ creation.pc = "thrown"
    /\ creation.tried = 3 /\ creation.waits = <<100, 200>>
    /\ creation.failures[2] # creation.failures[3]

\* ---------------------------------- properties: the StreamResult's cancel

\* C35: when streamFromResponse returns the StreamResult of a request that
\* missed the cache and whose download neither failed nor was aborted, the
\* cache fill has not yet read the payload to its end.
C35_ReturnsBeforeThePayloadIsRead ==
    [][\A r \in Requests :
          /\ requests[r].pc \in {"fill", "set"} /\ requests'[r].pc = "returned"
          /\ requests[r].body # <<>> /\ ~FillBroken(r)'
          => requests'[r].filled < Len(requests[r].body)]_vars

\* C36: cancel() of the StreamResult of a request aborts no other request,
\* and it aborts its own request when a consumer of that request's payload is
\* under way, whatever was cancelled before.
C36_CancelAbortsItsOwnRequest ==
    [][\A r \in Requests :
          Cancel(r) =>
              /\ \A q \in Requests \ {r} : aborted'[q] = aborted[q]
              /\ ActiveStream(r) => aborted'[r]]_vars

\* ------------------------------------------ properties: justCache

\* What get(id) would return now: the chunks of the entry in the memory
\* cache, else of the entry in the store, else nothing.
GetNow(id) ==
    IF id \in DOMAIN memoryCache THEN <<memoryCache[id].chunks>>
    ELSE IF id \in DOMAIN durable THEN <<durable[id].chunks>>
    ELSE <<>>

\* One request with justCache.  The database of the cache opens and loads; a
\* put or a lookup of the store may fail, and so may the fetch and the body
\* of the response.  dispose() aborts what is under way.
JustCacheNext ==
    \/ Uninterrupted /\ InitOpenDone(TRUE)
    \/ Uninterrupted /\ InitLoadDone(TRUE)
    \/ Uninterrupted /\ InitEstimateDone
    \/ \E r \in Requests, ok \in BOOLEAN :
        \/ Uninterrupted /\ PutDone(r, ok)
        \/ Uninterrupted /\ GetEntryDone(r, ok)
    \/ \E r \in Requests :
        \/ InitializeReturned(r)
        \/ GetReturnedJustCache(r)
        \/ SetReturnedJustCache(r)
    \/ \E id \in StreamIds : StreamFromUrl(RequestOrder[1], id)
    \/ \E r \in Requests :
        \/ \E ok \in BOOLEAN, body \in Bodies, ct \in ContentTypes :
              FetchDone(r, ok, body, ct)
        \/ \E ok \in BOOLEAN : ProcessDone(r, ok)
        \/ BodyError(r)
        \/ FillFailJustCache(r)
        \/ FillReadJustCache(r)
    \/ Dispose

SpecJustCache == StreamerOverStore /\ [][JustCacheNext]_vars

\* C37: when onLoaded or onEnded of a justCache request that missed the cache
\* resolves, get(id) returns the whole payload of the response.
C37_ResolvedMeansStored ==
    [][\A r \in Requests :
          /\ ~requests[r].cacheHit
          /\ \/ requests[r].onLoaded # "resolved" /\ requests'[r].onLoaded = "resolved"
             \/ requests[r].onEnded # "resolved" /\ requests'[r].onEnded = "resolved"
          => GetNow(requests[r].id)' = <<requests[r].body>>]_vars

\* ------------------------------------- properties: the end of a track

PlayModes == {"sequential", "repeat", "repeatOne"}

\* The listeners of one end of the audio element have not all run.
EndUnderWay == \E c \in TrackCalls : trackCalls[c].pc = "ended"

\* A playlist is loaded, a play mode is set and tracks are played, from the
\* cache or from the network, to their end.  Calls and events get their turn
\* once the listeners of an end of the element have run.
TrackEndNext ==
    \/ ~EndUnderWay /\ \E items \in Playlists : LoadPlaylist(items)
    \/ ~EndUnderWay /\ \E mode \in PlayModes : SetPlayMode(mode)
    \/ \E c \in TrackCalls :
        \/ ~EndUnderWay /\ \E index \in 0..(MaxTracks - 1) : PlayTrack(c, index)
        \/ \E ok \in BOOLEAN : PlayTrackBegun(c, ok)
        \/ ~EndUnderWay /\ \E ok \in BOOLEAN : PlayTrackLoaded(c, ok)
        \/ ~EndUnderWay /\ PlayTrackStreamed(c)
        \/ ~EndUnderWay /\ \E d \in TrackCalls : StateChangeEnded(c, d)
        \/ OnEndedResolved(c)

SpecTrackEnd == Init /\ [][TrackEndNext]_vars

\* C38: the manager reacts once to an end of playback: after its stateChange
\* listener has handled the end, the resolution of onEnded for the same end
\* leaves the state and the current index as they are and starts no
\* playTrack.
C38_OneReactionPerEnd ==
    [][\A c \in TrackCalls :
          trackCalls[c].pc = "ended" /\ trackCalls'[c].pc # "ended"
          => /\ trackCalls' = [trackCalls EXCEPT ![c].pc = "done"]
             /\ UNCHANGED <<playlistState, currentIndex>>]_vars

\* --------------------------------- properties: editing the playlist

\* The current index is -1 or an index of the playlist, and getState()
\* reports it with the track at it.
IndexInStep ==
    /\ -1 <= currentIndex /\ currentIndex < playlistState.totalTracks
    /\ playlistState.currentIndex = currentIndex
    /\ playlistState.currentTrack =
          IF currentIndex = -1 THEN "" ELSE TrackAt(playlist, currentIndex)

\* C39: loadPlaylist, addTrack and removeTrack keep the current index within
\* the playlist and getState() in step with it, and addTrack and removeTrack
\* keep the current track current unless it is the one removed.
C39_EditsKeepTheCurrentTrack ==
    [][IndexInStep =>
          /\ \A items \in Playlists : LoadPlaylist(items) => IndexInStep'
          /\ \A index \in -1..MaxTracks :
                AddTrack(AddedTrack, index) \/ RemoveTrack(index) =>
                    /\ IndexInStep'
                    /\ currentIndex # -1 /\ ~(RemoveTrack(index) /\ index = currentIndex)
                       => TrackAt(playlist', currentIndex') = TrackAt(playlist, currentIndex)
      ]_vars

\* ------------------------------- properties: one recording at a time

\* C40: a startRecording call that comes to its test of the state while
\* another call is requesting permission, or while the recorder is recording
\* or paused, throws; it requests no permission and creates no MediaRecorder.
C40_OneRecordingAtATime ==
    [][\A k \in RecordCalls :
          /\ recordings[k].pc = "initialize" /\ recordings'[k].pc # "initialize"
          /\ recorderState.state \in {"requesting-permission", "recording", "paused"}
          => recordings'[k].pc = "thrown"]_vars

====
